---- MODULE Spec2Model ----
(***************************************************************************)
(* Model of the real-time messaging core of the WhatsApp clone:            *)
(*   whatsapp_app/consumers.py  ChatConsumer, CallConsumer (WebSocket      *)
(*                              handlers)                                  *)
(*   whatsapp_app/routing.py    the chat_id / call_id of the URL           *)
(*   whatsapp_app/views.py      login_view, logout_view, profile_view,     *)
(*                              send_message, delete_message,              *)
(*                              star_message, chat_detail_view,            *)
(*                              chat_list_view, create_personal_chat,      *)
(*                              pin_chat, leave_group, initiate_call,      *)
(*                              update_call_status                         *)
(*   whatsapp_app/models.py     Message, MessageReceipt, DeletedMessage,   *)
(*                              Call, User.is_online                       *)
(*   management/commands/seed_data.py  the seeded rows                     *)
(* The channel layer (group_add / group_discard / group_send) is modelled  *)
(* as group membership sets plus one FIFO queue per channel; a consumer's  *)
(* event handler runs when its channel's head message is dispatched.       *)
(* A consumer's handler is a coroutine: each action is the part of a       *)
(* handler up to its next await, and the handlers of other consumers and   *)
(* the views run in between.  A view or a database helper that makes       *)
(* several queries runs them one by one (no transaction): each action of   *)
(* it is one query, and a row it loaded is a copy that model.save() writes *)
(* back whole.  Time is counted in ticks, TicksPerSecond of them to the      *)
(* second.  Each specification below drives a subset of the connections    *)
(* and operations.                                                         *)
(***************************************************************************)
EXTENDS Integers, Sequences, FiniteSets, TLC

\* ------------------------------------------------------------- bounds
\* the steps the clock takes
MaxTime == 2
\* the resolution of the clock: ticks to the second
TicksPerSecond == 2
MaxMessages == 1
MaxInbox == 1
MaxCalls == 1
\* the length of the request sequences tried on one call
MaxRequests == 3
\* the connections of SpecFifo send and queue more
FifoMessages == 3
FifoInbox == 3

\* --------------------------------------------------- program constants
\* timedelta(hours=1), in ticks
DeleteWindow == 3600 * TicksPerSecond

Tombstone == "This message was deleted"

\* ------------------------------------------------------------ universe
Users == {"A", "B", "C"}
Conns == {"k1", "k2", "k3", "k4", "k5", "k6", "k7", "k8", "k9", "k10",
          "v1", "v2", "v3", "v4", "v5"}

\* scope['user'] of each connection
ConnUser == [k \in Conns |->
               CASE k \in {"k1", "k2", "k5", "k7", "k9", "v1", "v3"} -> "A"
                 [] k \in {"k3", "k8", "k10", "v2", "v5"} -> "B"
                 [] OTHER -> "C"]

\* scope['url_route']['kwargs']['chat_id'] (for v1..v5: ['call_id']), the
\* text the URL pattern [0-9a-f-]+ matched.  k1, k2, k9 (A), k3, k10 (B) and
\* k4 (C) name the personal chat c1 of A and B as str(uuid) spells it, k8 (B) names
\* it by its 32 hex digits without hyphens ("c1x"); k5 (A) names c0, k6
\* (C) and k7 (A) name the group chat c2.  v1, v3 (A), v2 (B) and v4 (C) name
\* the first call, v5 (B) names it without hyphens ("call1x").
ConnUrl == [k \in Conns |->
              CASE k = "k5" -> "c0" [] k \in {"k6", "k7"} -> "c2"
                [] k = "k8" -> "c1x"
                [] k \in {"v1", "v2", "v3", "v4"} -> "call1"
                [] k = "v5" -> "call1x"
                [] OTHER -> "c1"]

\* the value a UUIDField makes of the text of an id: uuid.UUID(hex) drops
\* the hyphens, so both spellings are the same id
to_python(text) ==
    CASE text = "c1x" -> "c1" [] text = "call1x" -> "call1" [] OTHER -> text

\* the Chat that Chat.objects.get(id=self.chat_id) looks up
ConnChat == [k \in Conns |-> to_python(ConnUrl[k])]

\* self.chat_group_name = f'chat_{self.chat_id}' and self.call_group_name =
\* f'call_{self.call_id}': the group is named by the text of the URL
chat_group_name(k) == ConnUrl[k]
call_group_name(k) == ConnUrl[k]

\* chat ids a request may name; "c0" is the id of no Chat row
ChatIds == {"c0", "c1", "c2"}
Contents == {"hi"}
\* the groups of the channel layer
Topics == {ConnUrl[k] : k \in Conns}
\* the 'type' of an inbound frame; "ping" stands for every other value
ChatFrameTypes == {"chat_message", "typing", "read_receipt", "delete_message", "ping"}
SignalFrameTypes == {"offer", "answer", "ice_candidate", "ping"}
SignalData == {"sdp"}
MsgIds == 1..MaxMessages

\* Chat.chat_type of the chats: c2 and the chat create_group_chat makes
\* (c7) are groups, every other chat is personal
chat_type(c) == IF c \in {"c2", "c7"} THEN "group" ELSE "personal"

\* the bounds by connection: the messages a connection may send, and the
\* capacity of its channel in the channel layer (channels' default of 100,
\* scaled down)
FifoConns == {"k6", "k7"}
MessageCapacity(k) == IF k \in FifoConns THEN FifoMessages ELSE MaxMessages
InboxCapacity(k) == IF k \in FifoConns THEN FifoInbox ELSE MaxInbox
CallIds == 1..MaxCalls

NoTime == {}

\* concurrent create_personal_chat requests: r1 and r3 by A naming C, r2
\* by C naming A, r4 by A naming B
Requests == {"r1", "r2", "r3", "r4"}
ReqUser == [r \in Requests |-> IF r = "r2" THEN "C" ELSE "A"]
\* the user_id of the request body
ReqOther == [r \in Requests |-> CASE r = "r2" -> "A" [] r = "r4" -> "B" [] OTHER -> "C"]
\* the uuid4 a Chat created by the request gets
NewChatId == [r \in Requests |-> CASE r = "r1" -> "c3" [] r = "r2" -> "c4"
                                   [] r = "r3" -> "c5" [] OTHER -> "c6"]

\* a create_group_chat request of A; the uuid4 its Chat gets
GroupRequests == {"g1"}
GroupRequestUser == [g \in GroupRequests |-> "A"]
NewGroupId == [g \in GroupRequests |-> "c7"]
\* the participants[] lists posted: other users, the creator's own id, an
\* id twice, and an id "X" of no User
ParticipantLists == {<<"B">>, <<"B", "C">>, <<"A">>, <<"B", "B">>, <<"X", "B">>}

\* the update_call_status requests of a run, posted by B and A in turn
CallRequests == {"q1", "q2", "q3"}
CallRequestNo == [q \in CallRequests |-> CASE q = "q1" -> 1 [] q = "q2" -> 2 [] OTHER -> 3]
CallRequestUser == [q \in CallRequests |-> IF q = "q2" THEN "A" ELSE "B"]

VARIABLES
    now,          \* timezone.now(), in ticks
    participants, \* ChatParticipant rows: existing chat id -> set of users
    messages,     \* Message rows; a message's id is its index
    receipts,     \* MessageReceipt rows: <<message id, user>> -> row
    deleted_for,  \* DeletedMessage rows: the set of <<message id, user>>
    calls,        \* Call rows; a call's id is its index
    is_online,    \* User.is_online
    conn,         \* per connection: "new", "open", "rejected" or "closed"
    groups,       \* channel layer groups: group name -> set of channels
    inbox,        \* channel layer: per channel, the messages not yet dispatched
    pc,           \* per connection and HTTP request: where its handler stands
    published,    \* the group_send made by the last step, if any
    delivered     \* the event-handler run of the last step, if any

vars == <<now, participants, messages, receipts, deleted_for, calls, is_online, conn, groups, inbox,
          pc, published, delivered>>

store == <<participants, messages, receipts, deleted_for>>

\* ------------------------------------------------------------- events
NoEvent == [type |-> "none", user_id |-> "-", message_id |-> 0, flag |-> FALSE,
            origin |-> "-"]
NoPublish == [topic |-> "-", event |-> NoEvent]
NoDelivery == [conn |-> "-", event |-> NoEvent, sent |-> FALSE]

\* The group_send payloads; origin is the publishing connection (not part of
\* the payload the code sends: it identifies the publisher for the properties).
ChatMessageEvent(k, id) ==
    [type |-> "chat_message", user_id |-> ConnUser[k], message_id |-> id,
     flag |-> FALSE, origin |-> k]
TypingEvent(k, is_typing) ==
    [type |-> "typing_indicator", user_id |-> ConnUser[k], message_id |-> 0,
     flag |-> is_typing, origin |-> k]
ReadReceiptEvent(k, message_id) ==
    [type |-> "read_receipt", user_id |-> ConnUser[k], message_id |-> message_id,
     flag |-> FALSE, origin |-> k]
MessageDeletedEvent(k, message_id, delete_for_everyone) ==
    [type |-> "message_deleted", user_id |-> "-", message_id |-> message_id,
     flag |-> delete_for_everyone, origin |-> k]
UserStatusEvent(k, online) ==
    [type |-> "user_status", user_id |-> ConnUser[k], message_id |-> 0,
     flag |-> online, origin |-> k]
\* CallConsumer's group_send payloads
SignalEvent(k, signal_type, data) ==
    [type |-> "webrtc_signal", user_id |-> ConnUser[k], message_id |-> 0,
     flag |-> FALSE, origin |-> k, signal_type |-> signal_type, data |-> data]
UserLeftEvent(k) ==
    [type |-> "user_left", user_id |-> ConnUser[k], message_id |-> 0,
     flag |-> FALSE, origin |-> k]

\* ------------------------------------------------------ handler position
\* pc holds the handlers that stand at one of their awaits (a view:
\* between two queries) and the requests that have been answered; a process
\* outside its domain is not running
At(p) == IF p \in DOMAIN pc THEN pc[p].at ELSE "idle"

\* a consumer dispatches one message at a time: it takes the next frame or
\* channel message when the handler of the previous one has returned
Idle(k) == At(k) = "idle"

\* the local variables a handler holds across its awaits: the message or
\* the call it works on, the participants its loop has still to visit, the
\* chat it looked up or created, the requesting user, a flag
\* (delete_for_everyone; the is_online of a loaded User), the row it loaded
\* (a sequence of one row, or none) and the user ids its loop has still to
\* visit in order
NoLocals == [message_id |-> 0, call_id |-> 0, todo |-> {}, chat |-> "-", user |-> "-",
             flag |-> FALSE, row |-> <<>>, ids |-> <<>>]

\* pc after process p moved to position at with the local variables l
MovedTo(p, at, l) ==
    [q \in DOMAIN pc \cup {p} |->
        IF q = p
        THEN [at |-> at, message_id |-> l.message_id, call_id |-> l.call_id,
              todo |-> l.todo, chat |-> l.chat, user |-> l.user, flag |-> l.flag,
              row |-> l.row, ids |-> l.ids]
        ELSE pc[q]]

\* pc after the handler of p returned
Returned(p) == [q \in DOMAIN pc \ {p} |-> pc[q]]

\* ------------------------------------------------------ store helpers
ChatExists(c) == c \in DOMAIN participants

\* ChatConsumer.check_participant
check_participant(k) ==
    /\ ChatExists(ConnChat[k])
    /\ ConnUser[k] \in participants[ConnChat[k]]

\* chat.participants.exclude(id=sender.id)
other_participants(c, sender) == participants[c] \ {sender}

\* MessageReceipt.objects.create(message=message, user=participant, status='sent')
NewReceipt == [status |-> "sent", delivered_at |-> NoTime, read_at |-> NoTime]

NewMessage(c, sender, content) ==
    [chat |-> c, sender |-> sender, content |-> content, created_at |-> now,
     deleted_for_everyone |-> FALSE, is_starred |-> FALSE]

\* the receipt rows after one MessageReceipt.objects.create of the loop
ReceiptCreated(id, u) ==
    [p \in (DOMAIN receipts) \cup {<<id, u>>} |->
        IF p \in DOMAIN receipts THEN receipts[p] ELSE NewReceipt]

\* mutant: the message is announced although save_message caught an error
ReturnsMessageAlways(raised) == TRUE

\* save_message returns the message, or None from its except clause, and
\* handle_chat_message publishes only `if message:`
ReturnsMessage(raised) == ~raised

\* mutant: the frame is recorded as a delivery
ReadReceiptStatusDelivered == "delivered"

\* the status handle_read_receipt passes to update_receipt
ReadReceiptStatus == "read"

\* the body of update_receipt on the row it found, timezone.now() being t
UpdatedReceipt(r, status, t) ==
    [status |-> status,
     delivered_at |-> IF status = "delivered" THEN {t} ELSE r.delivered_at,
     read_at |-> IF status = "read" THEN {t} ELSE r.read_at]

\* mutant: the lookup is by message only
ReceiptsOfMessage(message_id, u) == {p \in DOMAIN receipts : p[1] = message_id}

\* MessageReceipt.objects.get(message_id=message_id, user=self.user): the
\* row update_receipt writes, if there is one
MatchedReceipts(message_id, u) ==
    {p \in DOMAIN receipts : p[1] = message_id /\ p[2] = u}

\* chat_list_view's unread queryset for user u and chat c: the messages of
\* c that u did not send, without those excluded by
\* exclude(receipts__user=u, receipts__status='read').  The two conditions
\* of one exclude() over the multi-valued relation `receipts` are tested
\* each on its own: a message is excluded when it has a receipt of u and
\* has a receipt that is 'read'.
unread(u, c) ==
    {id \in 1..Len(messages) :
        /\ messages[id].chat = c
        /\ messages[id].sender # u
        /\ ~(/\ \E p \in DOMAIN receipts : p[1] = id /\ p[2] = u
             /\ \E p \in DOMAIN receipts : p[1] = id /\ receipts[p].status = "read")}

\* unread_counts[chat.id]
unread_counts(u, c) == Cardinality(unread(u, c))

\* message.deleted_for_everyone = True; message.content = "This message was
\* deleted" (the same two assignments in consumers.delete_message and in
\* views.delete_message)
DeletedForEveryone(m) ==
    [m EXCEPT !.deleted_for_everyone = TRUE, !.content = Tombstone]

\* mutant: the window closes at exactly one hour
DeleteWindowExpiredAtBoundary(m, t) == t - m.created_at >= DeleteWindow

\* timezone.now() - message.created_at > timedelta(hours=1), timezone.now()
\* being t
DeleteWindowExpired(m, t) == t - m.created_at > DeleteWindow

\* Message.objects.get(id=message_id, sender=self.user) and
\* get_object_or_404(Message, id=message_id, sender=request.user): whether
\* the row is found
MessageOfSender(message_id, u) ==
    message_id \in 1..Len(messages) /\ messages[message_id].sender = u

\* message.is_starred = not message.is_starred
StarToggled(m) == [m EXCEPT !.is_starred = ~@]

\* ------------------------------------------------------------- calls
\* Call.CALL_STATUS
CALL_STATUS == {"initiated", "ringing", "ongoing", "ended", "missed", "declined",
                "failed"}

\* the value of a DateTimeField that is set
TimeOf(field) == CHOOSE t \in field : TRUE

\* int(delta.total_seconds()) of a timedelta of that many ticks: int()
\* truncates toward zero
int_total_seconds(ticks) ==
    IF ticks >= 0 THEN ticks \div TicksPerSecond ELSE 0 - ((0 - ticks) \div TicksPerSecond)

\* int((later - earlier).total_seconds())
total_seconds(later, earlier) == int_total_seconds(TimeOf(later) - TimeOf(earlier))

\* Call.objects.create(caller=request.user, receiver=receiver, status='initiated')
NewCall(caller, receiver) ==
    [caller |-> caller, receiver |-> receiver, status |-> "initiated",
     started_at |-> now, answered_at |-> NoTime, ended_at |-> NoTime, duration |-> 0]

\* mutant: the duration is counted from started_at
EndedDurationFromStart(call, t) == int_total_seconds(t - call.started_at)

\* the duration update_call_status stores with status 'ended',
\* timezone.now() being t
EndedDuration(call, t) ==
    IF call.answered_at # NoTime THEN total_seconds({t}, call.answered_at)
    ELSE call.duration

\* the Call row update_call_status saves for the posted status: the row
\* it loaded with the assignments of the matching branch, timezone.now()
\* being t
UpdatedCall(call, status, t) ==
    CASE status = "ongoing" -> [call EXCEPT !.status = "ongoing", !.answered_at = {t}]
      [] status = "ended" -> [call EXCEPT !.status = "ended", !.ended_at = {t},
                                          !.duration = EndedDuration(call, t)]
      [] status = "declined" -> [call EXCEPT !.status = "declined"]
      [] status = "missed" -> [call EXCEPT !.status = "missed"]
      [] OTHER -> call

\* ----------------------------------------------------------- dispatch
\* mutant: a frame of unknown type is handled as a typing frame
HandlerOfOrTyping(message_type) ==
    CASE message_type = "chat_message" -> "handle_chat_message"
      [] message_type = "read_receipt" -> "handle_read_receipt"
      [] message_type = "delete_message" -> "handle_delete_message"
      [] OTHER -> "handle_typing"

\* ChatConsumer.receive: the handler its if/elif chain picks for a frame
HandlerOf(message_type) ==
    CASE message_type = "chat_message" -> "handle_chat_message"
      [] message_type = "typing" -> "handle_typing"
      [] message_type = "read_receipt" -> "handle_read_receipt"
      [] message_type = "delete_message" -> "handle_delete_message"
      [] OTHER -> "none"

\* the rows a call of cs can become by a sequence of at most n
\* update_call_status requests
RECURSIVE CallsAfter(_, _)
CallsAfter(cs, n) ==
    IF n = 0 THEN cs
    ELSE CallsAfter(cs \cup {UpdatedCall(c, st, now) : c \in cs, st \in CALL_STATUS}, n - 1)

\* ------------------------------------------------- channel layer
\* every channel of grp holds less than its capacity
HasRoom(grp) == \A k \in grp : Len(inbox[k]) < InboxCapacity(k)

\* the connections whose publishes are followed beyond the capacity of the
\* subscribers' channels: k9 (A) and k10 (B) on the personal chat c1
OverflowConns == {"k9", "k10"}

\* the runs that are explored: a publish of another connection is followed
\* only while every member channel has room
Explored(g, e) == e.origin \in OverflowConns \/ HasRoom(groups[g])

\* mutant: the channel stays in the group
DiscardedNot(grp, k) == grp

\* channel_layer.group_discard(group, channel)
Discarded(grp, k) == grp \ {k}

\* the channel's queue after the consumer took its next message
Dequeued(q) == Tail(q)

\* mutant: a message overtakes the messages already on the channel
EnqueueFirst(q, e) == <<e>> \o q

\* the channel layer puts a message at the end of a channel's queue
Enqueue(q, e) == Append(q, e)

\* channel_layer.group_send(group, event): one copy per member channel; it
\* does not wait, and a channel that already holds its capacity of messages
\* gets none (the channel layer drops the copy)
Publish(g, e) ==
    /\ Explored(g, e)
    /\ inbox' = [k \in Conns |->
                   IF k \in groups[g] /\ Len(inbox[k]) < InboxCapacity(k)
                   THEN Enqueue(inbox[k], e) ELSE inbox[k]]
    /\ published' = [topic |-> g, event |-> e]

\* mutant: the typing handler sends unconditionally
TypingVisibleAlways(e, k) == TRUE

\* ChatConsumer.typing_indicator's guard on self.send
TypingVisible(e, k) == e.user_id # ConnUser[k]

\* mutant: every handler suppresses the publishing user's own events
HandlerSendsToOthersOnly(e, k) == e.user_id # ConnUser[k]

\* CallConsumer.webrtc_signal's guard on self.send
SignalVisible(e, k) == e.user_id # ConnUser[k]

\* whether the consumer's handler for event e writes a frame to k's socket
HandlerSends(e, k) ==
    CASE e.type = "typing_indicator" -> TypingVisible(e, k)
      [] e.type = "webrtc_signal" -> SignalVisible(e, k)
      [] OTHER -> TRUE

\* ------------------------------------------------------------ initial
\* Every table starts empty (the field defaults: nobody online), or as
\* seed_data leaves it.
\* timedelta(days=days, seconds=seconds), in ticks
timedelta(days, seconds) == TicksPerSecond * (86400 * days + seconds)

\* create_message_receipts: B's receipt of the one message of A in c1
\* (created_at is the time of the seeding), in any of the three statuses;
\* delivered_at is delivered_secs after the message's created_at, read_at
\* read_secs after delivered_at
SeededReceipt(status, delivered_secs, read_secs) ==
    [status |-> status,
     delivered_at |-> IF status \in {"delivered", "read"}
                      THEN {0 + timedelta(0, delivered_secs)} ELSE NoTime,
     read_at |-> IF status = "read"
                 THEN {0 + timedelta(0, delivered_secs) + timedelta(0, read_secs)}
                 ELSE NoTime]

\* random.randint(1, 60) and random.randint(1, 300)
SeedDeliveredSecs == 1..60
SeedReadSecs == 1..300

\* the rows create_message_receipts can write when it draws from these ranges
SeededReceipts(delivered_range, read_range) ==
    {SeededReceipt("sent", 0, 0)}
       \cup {SeededReceipt("delivered", d, 0) : d \in delivered_range}
       \cup {SeededReceipt("read", d, r) : d \in delivered_range, r \in read_range}

\* create_calls: the first row, a call of A to B that is ended, missed or
\* declined.  The started_at passed, now - days, is replaced by the time of
\* the seeding (auto_now_add); an ended call was answered secs seconds after
\* the started_at passed and ended duration seconds after that.
SeededCall(status, days, secs, duration) ==
    [caller |-> "A", receiver |-> "B", status |-> status, started_at |-> 0,
     answered_at |-> IF status = "ended"
                     THEN {0 - timedelta(days, 0) + timedelta(0, secs)} ELSE NoTime,
     ended_at |-> IF status = "ended"
                  THEN {0 - timedelta(days, 0) + timedelta(0, secs) + timedelta(0, duration)}
                  ELSE NoTime,
     duration |-> IF status = "ended" THEN duration ELSE 0]

\* random.randint(0, 30), random.randint(2, 10) and random.randint(30, 3600)
SeedDays == 0..30
SeedSecs == 2..10
SeedDurations == 30..3600

\* create_messages: the first row, a message of A in c1; created_at is
\* auto_now_add, is_starred is drawn
SeededMessage(is_starred) ==
    [chat |-> "c1", sender |-> "A", content |-> "hi", created_at |-> 0,
     deleted_for_everyone |-> FALSE, is_starred |-> is_starred]

\* the Call tables create_calls can leave when it draws from these ranges
SeededCalls(day_range, sec_range, duration_range) ==
    {<<>>} \cup {<<SeededCall(s, 0, 0, 0)>> : s \in {"missed", "declined"}}
       \cup {<<SeededCall("ended", days, secs, duration)>> :
                days \in day_range, secs \in sec_range, duration \in duration_range}

\* the state after construction with the Call table one of call_tables;
\* create_users draws every user's is_online from [True, False]
InitFrom(call_tables) ==
    /\ now = 0
    /\ participants = [c \in {"c1", "c2"} |-> IF c = "c1" THEN {"A", "B"} ELSE Users]
    /\ calls \in call_tables
    /\ \/ /\ messages = <<>>
          /\ receipts = [p \in {} |-> NewReceipt]
       \/ /\ \E is_starred \in BOOLEAN : messages = <<SeededMessage(is_starred)>>
          /\ \E row \in SeededReceipts(SeedDeliveredSecs, SeedReadSecs) :
                receipts = [p \in {<<1, "B">>} |-> row]
    /\ deleted_for = {}
    /\ is_online \in [Users -> BOOLEAN]
    /\ conn = [k \in Conns |-> "new"]
    /\ groups = [g \in Topics |-> {}]
    /\ inbox = [k \in Conns |-> <<>>]
    /\ pc = [p \in {} |-> NoLocals]
    /\ published = NoPublish
    /\ delivered = NoDelivery

Init == InitFrom(SeededCalls(SeedDays, SeedSecs, SeedDurations))

\* ------------------------------------------------------------ actions
\* time passes: the clock takes one of its MaxTime steps of step ticks
Tick(step) ==
    /\ now + step <= MaxTime * step
    /\ now' = now + step
    /\ published' = NoPublish
    /\ delivered' = NoDelivery
    /\ UNCHANGED <<store, calls, pc, is_online, conn, groups, inbox>>

\* ChatConsumer.connect up to the return of check_participant
ConnectCheck(k) ==
    /\ conn[k] = "new"
    /\ Idle(k)
    /\ pc' = MovedTo(k, IF check_participant(k) THEN "connect: group_add"
                                               ELSE "connect: close", NoLocals)
    /\ published' = NoPublish
    /\ delivered' = NoDelivery
    /\ UNCHANGED <<now, calls, store, is_online, conn, groups, inbox>>

\* ChatConsumer.connect: self.close() of a refused handshake, after which
\* the handler returns
ConnectClose(k) ==
    /\ At(k) = "connect: close"
    /\ conn' = [conn EXCEPT ![k] = "rejected"]
    /\ pc' = Returned(k)
    /\ published' = NoPublish
    /\ delivered' = NoDelivery
    /\ UNCHANGED <<now, calls, store, is_online, groups, inbox>>

\* ChatConsumer.connect: channel_layer.group_add
ConnectGroupAdd(k) ==
    /\ At(k) = "connect: group_add"
    /\ groups' = [groups EXCEPT ![chat_group_name(k)] = @ \cup {k}]
    /\ pc' = MovedTo(k, "connect: accept", NoLocals)
    /\ published' = NoPublish
    /\ delivered' = NoDelivery
    /\ UNCHANGED <<now, calls, store, is_online, conn, inbox>>

\* ChatConsumer.connect: self.accept()
ConnectAccept(k) ==
    /\ At(k) = "connect: accept"
    /\ conn' = [conn EXCEPT ![k] = "open"]
    /\ pc' = MovedTo(k, "connect: update_online_status", NoLocals)
    /\ published' = NoPublish
    /\ delivered' = NoDelivery
    /\ UNCHANGED <<now, calls, store, is_online, groups, inbox>>

\* ChatConsumer.connect: update_online_status(True)
ConnectOnline(k) ==
    /\ At(k) = "connect: update_online_status"
    /\ is_online' = [is_online EXCEPT ![ConnUser[k]] = TRUE]
    /\ pc' = MovedTo(k, "connect: group_send", NoLocals)
    /\ published' = NoPublish
    /\ delivered' = NoDelivery
    /\ UNCHANGED <<now, calls, store, conn, groups, inbox>>

\* ChatConsumer.connect: the group_send of user_status, after which the
\* handler returns
ConnectSend(k) ==
    /\ At(k) = "connect: group_send"
    /\ Publish(chat_group_name(k), UserStatusEvent(k, TRUE))
    /\ pc' = Returned(k)
    /\ delivered' = NoDelivery
    /\ UNCHANGED <<now, calls, store, is_online, conn, groups>>

\* ChatConsumer.connect of a connection whose check_participant succeeds,
\* any step of it
ConnectAccepted(k) ==
    \/ ConnectCheck(k)
    \/ ConnectGroupAdd(k)
    \/ ConnectAccept(k)
    \/ ConnectOnline(k)
    \/ ConnectSend(k)

\* ChatConsumer.connect, any step of it
Connect(k) ==
    \/ ConnectAccepted(k)
    \/ ConnectClose(k)

\* ChatConsumer.disconnect up to the return of group_discard; it also runs
\* for a connection closed in connect.  The channel's undispatched messages
\* are never handled afterwards.
DisconnectDiscard(k) ==
    /\ conn[k] \in {"open", "rejected"}
    /\ Idle(k)
    /\ groups' = [groups EXCEPT ![chat_group_name(k)] = Discarded(@, k)]
    /\ conn' = [conn EXCEPT ![k] = "closed"]
    /\ inbox' = [inbox EXCEPT ![k] = <<>>]
    /\ pc' = MovedTo(k, "disconnect: update_online_status", NoLocals)
    /\ published' = NoPublish
    /\ delivered' = NoDelivery
    /\ UNCHANGED <<now, calls, store, is_online>>

\* ChatConsumer.disconnect: update_online_status(False)
DisconnectOffline(k) ==
    /\ At(k) = "disconnect: update_online_status"
    /\ is_online' = [is_online EXCEPT ![ConnUser[k]] = FALSE]
    /\ pc' = MovedTo(k, "disconnect: group_send", NoLocals)
    /\ published' = NoPublish
    /\ delivered' = NoDelivery
    /\ UNCHANGED <<now, calls, store, conn, groups, inbox>>

\* ChatConsumer.disconnect: the group_send of user_status
DisconnectSend(k) ==
    /\ At(k) = "disconnect: group_send"
    /\ Publish(chat_group_name(k), UserStatusEvent(k, FALSE))
    /\ pc' = Returned(k)
    /\ delivered' = NoDelivery
    /\ UNCHANGED <<now, calls, store, is_online, conn, groups>>

\* ChatConsumer.disconnect, any step of it
Disconnect(k) ==
    \/ DisconnectDiscard(k)
    \/ DisconnectOffline(k)
    \/ DisconnectSend(k)

\* views.login_view: user.is_online = True; user.save(update_fields=['is_online'])
LoginView(u) ==
    /\ is_online' = [is_online EXCEPT ![u] = TRUE]
    /\ published' = NoPublish
    /\ delivered' = NoDelivery
    /\ UNCHANGED <<now, calls, pc, store, conn, groups, inbox>>

\* views.logout_view: request.user.is_online = False;
\* request.user.save(update_fields=['is_online'])
LogoutView(u) ==
    /\ is_online' = [is_online EXCEPT ![u] = FALSE]
    /\ published' = NoPublish
    /\ delivered' = NoDelivery
    /\ UNCHANGED <<now, calls, pc, store, conn, groups, inbox>>

\* views.profile_view and views.update_privacy_settings (POST), up to the
\* load of request.user: the whole User row is read
ProfileLoad(h, u) ==
    /\ At(h) = "idle"
    /\ pc' = MovedTo(h, "profile_view: user.save",
                     [NoLocals EXCEPT !.user = u, !.flag = is_online[u]])
    /\ published' = NoPublish
    /\ delivered' = NoDelivery
    /\ UNCHANGED <<now, calls, store, is_online, conn, groups, inbox>>

\* views.profile_view and views.update_privacy_settings: user.save()
\* without update_fields writes every field of the loaded row back
ProfileSave(h) ==
    /\ At(h) = "profile_view: user.save"
    /\ is_online' = [is_online EXCEPT ![pc[h].user] = pc[h].flag]
    /\ pc' = Returned(h)
    /\ published' = NoPublish
    /\ delivered' = NoDelivery
    /\ UNCHANGED <<now, calls, store, conn, groups, inbox>>

\* views.profile_view, any step of it
ProfileView(h, u) ==
    \/ ProfileLoad(h, u)
    \/ ProfileSave(h) /\ pc[h].user = u

\* pc after save_message (send_message: the receipt loop) has finished for
\* process p: a consumer goes on to its group_send, the view answers
Saved(p) ==
    IF p \in Conns
    THEN MovedTo(p, "handle_chat_message: group_send",
                 [NoLocals EXCEPT !.message_id = pc[p].message_id])
    ELSE Returned(p)

\* receive: chat_message -> handle_chat_message -> save_message up to the
\* commit of Message.objects.create; an unknown chat raises Chat.DoesNotExist,
\* save_message returns None and the handler returns
WsChatMessage(k, content) ==
    /\ conn[k] = "open"
    /\ Idle(k)
    /\ Len(messages) < MessageCapacity(k)
    /\ IF ChatExists(ConnChat[k])
       THEN /\ messages' = Append(messages, NewMessage(ConnChat[k], ConnUser[k], content))
            /\ pc' = MovedTo(k, "save_message: other_participants",
                             [NoLocals EXCEPT !.message_id = Len(messages) + 1])
       ELSE UNCHANGED <<messages, pc>>
    /\ published' = NoPublish
    /\ delivered' = NoDelivery
    /\ UNCHANGED <<now, calls, participants, receipts, deleted_for, is_online, conn, groups,
                   inbox>>

\* views.send_message up to the return of get_object_or_404(Chat, id=chat_id,
\* participants=request.user); 404 unless u is a participant of chat c
SendMessageLookup(h, u, c) ==
    /\ At(h) = "idle"
    /\ Len(messages) < MaxMessages
    /\ ChatExists(c)
    /\ u \in participants[c]
    /\ pc' = MovedTo(h, "send_message: Message.objects.create",
                     [NoLocals EXCEPT !.chat = c, !.user = u])
    /\ published' = NoPublish
    /\ delivered' = NoDelivery
    /\ UNCHANGED <<now, calls, store, is_online, conn, groups, inbox>>

\* views.send_message (message_type 'text'): the commit of
\* Message.objects.create, for the chat the lookup returned
SendMessageCreate(h, content) ==
    /\ At(h) = "send_message: Message.objects.create"
    /\ Len(messages) < MaxMessages
    /\ messages' = Append(messages, NewMessage(pc[h].chat, pc[h].user, content))
    /\ pc' = MovedTo(h, "save_message: other_participants",
                     [NoLocals EXCEPT !.message_id = Len(messages) + 1])
    /\ published' = NoPublish
    /\ delivered' = NoDelivery
    /\ UNCHANGED <<now, calls, participants, receipts, deleted_for, is_online, conn, groups,
                   inbox>>

\* views.send_message up to the commit of its Message row, any step of it
HttpSendMessage(h, u, c, content) ==
    \/ SendMessageLookup(h, u, c)
    \/ SendMessageCreate(h, content) /\ pc[h].user = u /\ pc[h].chat = c

\* save_message and send_message: the query of the receipt loop,
\* chat.participants.exclude(id=...), evaluated when the loop starts
SaveParticipants(p) ==
    /\ At(p) = "save_message: other_participants"
    /\ LET id == pc[p].message_id
           todo == other_participants(messages[id].chat, messages[id].sender)
       IN  pc' = IF todo = {} THEN Saved(p)
                 ELSE MovedTo(p, "save_message: MessageReceipt.objects.create",
                              [NoLocals EXCEPT !.message_id = id, !.todo = todo])
    /\ published' = NoPublish
    /\ delivered' = NoDelivery
    /\ UNCHANGED <<now, calls, store, is_online, conn, groups, inbox>>

\* save_message and send_message: one MessageReceipt.objects.create of the
\* loop; the order of the queryset is the database's
SaveReceipt(p, u) ==
    /\ At(p) = "save_message: MessageReceipt.objects.create"
    /\ u \in pc[p].todo
    /\ receipts' = ReceiptCreated(pc[p].message_id, u)
    /\ pc' = IF pc[p].todo = {u} THEN Saved(p)
             ELSE MovedTo(p, "save_message: MessageReceipt.objects.create",
                          [NoLocals EXCEPT !.message_id = pc[p].message_id,
                                           !.todo = pc[p].todo \ {u}])
    /\ published' = NoPublish
    /\ delivered' = NoDelivery
    /\ UNCHANGED <<now, calls, participants, messages, deleted_for, is_online, conn, groups,
                   inbox>>

\* the receipt loop of save_message and of send_message, any step of it
SaveReceipts(p) ==
    \/ SaveParticipants(p)
    \/ \E u \in Users : SaveReceipt(p, u)

\* handle_chat_message from the return of save_message: the group_send of
\* the saved message
SendSavedMessage(k) ==
    /\ At(k) = "handle_chat_message: group_send"
    /\ Publish(chat_group_name(k), ChatMessageEvent(k, pc[k].message_id))
    /\ pc' = Returned(k)
    /\ delivered' = NoDelivery
    /\ UNCHANGED <<now, calls, store, is_online, conn, groups>>

\* the store raises in Message.objects.create of save_message: no row is
\* written, the except clause returns None
WsChatMessageRaises(k, content) ==
    /\ conn[k] = "open"
    /\ Idle(k)
    /\ Len(messages) < MessageCapacity(k)
    /\ pc' = IF ReturnsMessage(TRUE)
             THEN MovedTo(k, "handle_chat_message: group_send",
                          [NoLocals EXCEPT !.message_id = Len(messages) + 1])
             ELSE pc
    /\ published' = NoPublish
    /\ delivered' = NoDelivery
    /\ UNCHANGED <<now, calls, store, is_online, conn, groups, inbox>>

\* the store raises in the receipt loop, after the Message row and the
\* receipts created so far were committed: save_message's except clause
\* returns None, send_message answers with the error
SaveReceiptsRaises(p) ==
    /\ At(p) \in {"save_message: other_participants",
                  "save_message: MessageReceipt.objects.create"}
    /\ pc' = IF p \in Conns /\ ReturnsMessage(TRUE) THEN Saved(p) ELSE Returned(p)
    /\ published' = NoPublish
    /\ delivered' = NoDelivery
    /\ UNCHANGED <<now, calls, store, is_online, conn, groups, inbox>>

\* receive: typing -> handle_typing
WsTyping(k, is_typing) ==
    /\ conn[k] = "open"
    /\ Idle(k)
    /\ delivered' = NoDelivery
    /\ Publish(chat_group_name(k), TypingEvent(k, is_typing))
    /\ UNCHANGED <<now, calls, pc, store, is_online, conn, groups>>

\* receive: read_receipt -> handle_read_receipt -> update_receipt up to the
\* return of MessageReceipt.objects.get; without a row update_receipt
\* returns False, which the handler does not look at
WsReadReceipt(k, message_id) ==
    /\ conn[k] = "open"
    /\ Idle(k)
    /\ LET found == MatchedReceipts(message_id, ConnUser[k]) IN
       pc' = IF found # {}
             THEN MovedTo(k, "update_receipt: receipt.save",
                          [NoLocals EXCEPT !.message_id = message_id,
                                           !.row = <<receipts[CHOOSE p \in found : TRUE]>>])
             ELSE MovedTo(k, "handle_read_receipt: group_send",
                          [NoLocals EXCEPT !.message_id = message_id])
    /\ published' = NoPublish
    /\ delivered' = NoDelivery
    /\ UNCHANGED <<now, calls, store, is_online, conn, groups, inbox>>

\* update_receipt: receipt.save() of the loaded row with the new status
UpdateReceiptSave(k) ==
    /\ At(k) = "update_receipt: receipt.save"
    /\ receipts' = [p \in DOMAIN receipts |->
                      IF p \in MatchedReceipts(pc[k].message_id, ConnUser[k])
                      THEN UpdatedReceipt(pc[k].row[1], ReadReceiptStatus, now)
                      ELSE receipts[p]]
    /\ pc' = MovedTo(k, "handle_read_receipt: group_send",
                     [NoLocals EXCEPT !.message_id = pc[k].message_id])
    /\ published' = NoPublish
    /\ delivered' = NoDelivery
    /\ UNCHANGED <<now, calls, participants, deleted_for, messages, is_online, conn, groups,
                   inbox>>

\* handle_read_receipt: the group_send of read_receipt
SendReadReceipt(k) ==
    /\ At(k) = "handle_read_receipt: group_send"
    /\ Publish(chat_group_name(k), ReadReceiptEvent(k, pc[k].message_id))
    /\ pc' = Returned(k)
    /\ delivered' = NoDelivery
    /\ UNCHANGED <<now, calls, store, is_online, conn, groups>>

\* ChatConsumer.delete_message: its return value once it has found the
\* row, the clock having been read at t
DeleteAccepted(m, delete_for_everyone, t) ==
    delete_for_everyone => ~DeleteWindowExpired(m, t)

\* receive: delete_message -> handle_delete_message -> delete_message up to
\* the return of Message.objects.get: without a row it returns False and
\* the handler returns; a delete for the requester alone returns True with
\* no further query; `if deleted:` guards the group_send
WsDeleteMessage(k, message_id, delete_for_everyone) ==
    /\ conn[k] = "open"
    /\ Idle(k)
    /\ pc' = IF ~MessageOfSender(message_id, ConnUser[k]) THEN pc
             ELSE IF delete_for_everyone
             THEN MovedTo(k, "delete_message: message.save",
                          [NoLocals EXCEPT !.message_id = message_id,
                                           !.flag = delete_for_everyone,
                                           !.row = <<messages[message_id]>>])
             ELSE MovedTo(k, "handle_delete_message: group_send",
                          [NoLocals EXCEPT !.message_id = message_id,
                                           !.flag = delete_for_everyone])
    /\ published' = NoPublish
    /\ delivered' = NoDelivery
    /\ UNCHANGED <<now, calls, store, is_online, conn, groups, inbox>>

\* delete_message with delete_for_everyone: the check of the window and
\* message.save() of the loaded row
WsDeleteSave(k) ==
    /\ At(k) = "delete_message: message.save"
    /\ IF DeleteAccepted(pc[k].row[1], pc[k].flag, now)
       THEN /\ messages' = [messages EXCEPT ![pc[k].message_id] =
                                               DeletedForEveryone(pc[k].row[1])]
            /\ pc' = MovedTo(k, "handle_delete_message: group_send",
                             [NoLocals EXCEPT !.message_id = pc[k].message_id,
                                              !.flag = pc[k].flag])
       ELSE /\ pc' = Returned(k)
            /\ UNCHANGED messages
    /\ published' = NoPublish
    /\ delivered' = NoDelivery
    /\ UNCHANGED <<now, calls, participants, deleted_for, receipts, is_online, conn, groups,
                   inbox>>

\* handle_delete_message: the group_send of message_deleted
SendMessageDeleted(k) ==
    /\ At(k) = "handle_delete_message: group_send"
    /\ Publish(chat_group_name(k), MessageDeletedEvent(k, pc[k].message_id, pc[k].flag))
    /\ pc' = Returned(k)
    /\ delivered' = NoDelivery
    /\ UNCHANGED <<now, calls, store, is_online, conn, groups>>

\* ChatConsumer.receive for a frame of the given type, up to the handler's
\* first query or await; the fields the handlers read from the frame are
\* chosen freely
WsReceive(k, message_type) ==
    LET h == HandlerOf(message_type) IN
    \/ /\ h = "handle_chat_message"
       /\ \E content \in Contents : WsChatMessage(k, content)
    \/ /\ h = "handle_typing"
       /\ \E is_typing \in BOOLEAN : WsTyping(k, is_typing)
    \/ /\ h = "handle_read_receipt"
       /\ \E m \in MsgIds : WsReadReceipt(k, m)
    \/ /\ h = "handle_delete_message"
       /\ \E m \in MsgIds, d \in BOOLEAN : WsDeleteMessage(k, m, d)
    \/ /\ h = "none"
       /\ conn[k] = "open"
       /\ Idle(k)
       /\ published' = NoPublish
       /\ delivered' = NoDelivery
       /\ UNCHANGED <<now, calls, pc, store, is_online, conn, groups, inbox>>

\* views.delete_message answers {'success': True} once it has found the
\* row: not 400 (a delete for everyone within the window), the clock having
\* been read at t
DeleteViewAccepts(m, delete_for_everyone, t) ==
    delete_for_everyone => ~DeleteWindowExpired(m, t)

\* the Message rows views.delete_message leaves for the row m it loaded:
\* message.save() writes every field of it
DeleteViewMessages(message_id, m, delete_for_everyone, t) ==
    IF delete_for_everyone /\ DeleteViewAccepts(m, delete_for_everyone, t)
    THEN [messages EXCEPT ![message_id] = DeletedForEveryone(m)]
    ELSE messages

\* the DeletedMessage rows views.delete_message leaves: delete for me
\* records one (get_or_create)
DeleteViewDeletedFor(message_id, u, delete_for_everyone) ==
    IF ~delete_for_everyone THEN deleted_for \cup {<<message_id, u>>} ELSE deleted_for

\* views.delete_message up to the return of get_object_or_404(Message,
\* id=message_id, sender=request.user); 404 unless u sent the message
DeleteViewLoad(h, u, message_id, delete_for_everyone) ==
    /\ At(h) = "idle"
    /\ pc' = IF MessageOfSender(message_id, u)
             THEN MovedTo(h, "views.delete_message: message.save",
                          [NoLocals EXCEPT !.message_id = message_id, !.user = u,
                                           !.flag = delete_for_everyone,
                                           !.row = <<messages[message_id]>>])
             ELSE pc
    /\ published' = NoPublish
    /\ delivered' = NoDelivery
    /\ UNCHANGED <<now, calls, store, is_online, conn, groups, inbox>>

\* views.delete_message: 400 after the window, else message.save() of the
\* loaded row; delete for me records a DeletedMessage row
DeleteViewSave(h) ==
    /\ At(h) = "views.delete_message: message.save"
    /\ messages' = DeleteViewMessages(pc[h].message_id, pc[h].row[1], pc[h].flag, now)
    /\ deleted_for' = DeleteViewDeletedFor(pc[h].message_id, pc[h].user, pc[h].flag)
    /\ pc' = Returned(h)
    /\ published' = NoPublish
    /\ delivered' = NoDelivery
    /\ UNCHANGED <<now, calls, participants, receipts, is_online, conn, groups, inbox>>

\* views.delete_message, any step of it
HttpDeleteMessage(h, u, message_id, delete_for_everyone) ==
    \/ DeleteViewLoad(h, u, message_id, delete_for_everyone)
    \/ /\ h \in DOMAIN pc
       /\ pc[h].user = u /\ pc[h].message_id = message_id /\ pc[h].flag = delete_for_everyone
       /\ DeleteViewSave(h)

\* views.star_message up to the return of get_object_or_404(Message,
\* id=message_id): any logged-in user may name any message
StarLoad(h, u, message_id) ==
    /\ At(h) = "idle"
    /\ message_id \in 1..Len(messages)
    /\ pc' = MovedTo(h, "star_message: message.save",
                     [NoLocals EXCEPT !.message_id = message_id, !.user = u,
                                      !.row = <<messages[message_id]>>])
    /\ published' = NoPublish
    /\ delivered' = NoDelivery
    /\ UNCHANGED <<now, calls, store, is_online, conn, groups, inbox>>

\* views.star_message: message.save() writes every field of the loaded
\* row, is_starred toggled
StarSave(h) ==
    /\ At(h) = "star_message: message.save"
    /\ messages' = [messages EXCEPT ![pc[h].message_id] = StarToggled(pc[h].row[1])]
    /\ pc' = Returned(h)
    /\ published' = NoPublish
    /\ delivered' = NoDelivery
    /\ UNCHANGED <<now, calls, participants, receipts, deleted_for, is_online, conn, groups,
                   inbox>>

\* views.star_message, any step of it
StarMessage(h, u, message_id) ==
    \/ StarLoad(h, u, message_id)
    \/ StarSave(h) /\ pc[h].user = u /\ pc[h].message_id = message_id

\* views.chat_detail_view up to the return of get_object_or_404(Chat,
\* id=chat_id, participants=request.user); 404 unless u is a participant
ChatDetailLookup(h, u, c) ==
    /\ At(h) = "idle"
    /\ ChatExists(c)
    /\ u \in participants[c]
    /\ pc' = MovedTo(h, "chat_detail_view: get_or_create",
                     [NoLocals EXCEPT !.chat = c, !.user = u])
    /\ published' = NoPublish
    /\ delivered' = NoDelivery
    /\ UNCHANGED <<now, calls, store, is_online, conn, groups, inbox>>

\* views.chat_detail_view: ChatParticipant.objects.get_or_create, which
\* inserts the row if it is gone; the messages queryset built next raises
\* FieldError (exclude(deletedmessage__user=...) names no field of Message:
\* the relation is deleted_by_users), so the view ends here and its update
\* of the unread receipts is never run
ChatDetailGetOrCreate(h) ==
    /\ At(h) = "chat_detail_view: get_or_create"
    /\ participants' = [participants EXCEPT ![pc[h].chat] = @ \cup {pc[h].user}]
    /\ pc' = Returned(h)
    /\ published' = NoPublish
    /\ delivered' = NoDelivery
    /\ UNCHANGED <<now, calls, messages, receipts, deleted_for, is_online, conn, groups,
                   inbox>>

\* views.chat_detail_view, any step of it
ChatDetailView(h, u, c) ==
    \/ ChatDetailLookup(h, u, c)
    \/ ChatDetailGetOrCreate(h) /\ pc[h].user = u /\ pc[h].chat = c

\* views.pin_chat, mute_chat and archive_chat up to the return of
\* get_object_or_404(Chat, id=chat_id, participants=request.user)
PinChatLookup(h, u, c) ==
    /\ At(h) = "idle"
    /\ ChatExists(c)
    /\ u \in participants[c]
    /\ pc' = MovedTo(h, "pin_chat: ChatParticipant.objects.get",
                     [NoLocals EXCEPT !.chat = c, !.user = u])
    /\ published' = NoPublish
    /\ delivered' = NoDelivery
    /\ UNCHANGED <<now, calls, store, is_online, conn, groups, inbox>>

\* views.pin_chat: ChatParticipant.objects.get(chat=chat, user=request.user),
\* which raises DoesNotExist if the row is gone
PinChatGet(h) ==
    /\ At(h) = "pin_chat: ChatParticipant.objects.get"
    /\ pc' = IF pc[h].user \in participants[pc[h].chat]
             THEN MovedTo(h, "pin_chat: participant.save",
                          [NoLocals EXCEPT !.chat = pc[h].chat, !.user = pc[h].user])
             ELSE Returned(h)
    /\ published' = NoPublish
    /\ delivered' = NoDelivery
    /\ UNCHANGED <<now, calls, store, is_online, conn, groups, inbox>>

\* views.pin_chat: participant.save(), an UPDATE that inserts the row if it
\* matches none
PinChatSave(h) ==
    /\ At(h) = "pin_chat: participant.save"
    /\ participants' = [participants EXCEPT ![pc[h].chat] = @ \cup {pc[h].user}]
    /\ pc' = Returned(h)
    /\ published' = NoPublish
    /\ delivered' = NoDelivery
    /\ UNCHANGED <<now, calls, messages, receipts, deleted_for, is_online, conn, groups,
                   inbox>>

\* views.pin_chat, any step of it
PinChat(h, u, c) ==
    \/ PinChatLookup(h, u, c)
    \/ PinChatGet(h) /\ pc[h].user = u /\ pc[h].chat = c
    \/ PinChatSave(h) /\ pc[h].user = u /\ pc[h].chat = c

\* views.leave_group up to the return of get_object_or_404(Chat, id=chat_id,
\* chat_type='group', participants=request.user); 404 unless c is a group
\* chat of which u is a participant
LeaveGroupLookup(h, u, c) ==
    /\ At(h) = "idle"
    /\ ChatExists(c)
    /\ chat_type(c) = "group"
    /\ u \in participants[c]
    /\ pc' = MovedTo(h, "leave_group: ChatParticipant.objects.get",
                     [NoLocals EXCEPT !.chat = c, !.user = u])
    /\ published' = NoPublish
    /\ delivered' = NoDelivery
    /\ UNCHANGED <<now, calls, store, is_online, conn, groups, inbox>>

\* views.leave_group: ChatParticipant.objects.get(chat=chat, user=request.user),
\* which raises DoesNotExist if the row is gone
LeaveGroupGet(h) ==
    /\ At(h) = "leave_group: ChatParticipant.objects.get"
    /\ pc' = IF pc[h].user \in participants[pc[h].chat]
             THEN MovedTo(h, "leave_group: participant.delete",
                          [NoLocals EXCEPT !.chat = pc[h].chat, !.user = pc[h].user])
             ELSE Returned(h)
    /\ published' = NoPublish
    /\ delivered' = NoDelivery
    /\ UNCHANGED <<now, calls, store, is_online, conn, groups, inbox>>

\* views.leave_group: participant.delete(), a DELETE by primary key
LeaveGroupDelete(h) ==
    /\ At(h) = "leave_group: participant.delete"
    /\ participants' = [participants EXCEPT ![pc[h].chat] = @ \ {pc[h].user}]
    /\ pc' = Returned(h)
    /\ published' = NoPublish
    /\ delivered' = NoDelivery
    /\ UNCHANGED <<now, calls, messages, receipts, deleted_for, is_online, conn, groups,
                   inbox>>

\* views.leave_group, any step of it
LeaveGroup(h, u, c) ==
    \/ LeaveGroupLookup(h, u, c)
    \/ LeaveGroupGet(h) /\ pc[h].user = u /\ pc[h].chat = c
    \/ LeaveGroupDelete(h) /\ pc[h].user = u /\ pc[h].chat = c

\* create_personal_chat's existing_chat queryset
ExistingPersonalChats(u, other) ==
    {c \in DOMAIN participants :
        chat_type(c) = "personal" /\ u \in participants[c] /\ other \in participants[c]}

\* views.create_personal_chat, its lookup: the request returns the chat
\* .first() gives it, any of those found (the queryset is ordered by no
\* field, and the ids are random), or goes on to create one
CreateChatLookup(r) ==
    /\ At(r) = "idle"
    /\ \/ /\ ExistingPersonalChats(ReqUser[r], ReqOther[r]) = {}
          /\ pc' = MovedTo(r, "Chat.objects.create", NoLocals)
       \/ \E c \in ExistingPersonalChats(ReqUser[r], ReqOther[r]) :
             pc' = MovedTo(r, "returned", [NoLocals EXCEPT !.chat = c])
    /\ published' = NoPublish
    /\ delivered' = NoDelivery
    /\ UNCHANGED <<now, calls, store, is_online, conn, groups, inbox>>

\* views.create_personal_chat: Chat.objects.create(chat_type='personal')
CreateChatRow(r) ==
    /\ At(r) = "Chat.objects.create"
    /\ participants' = [c \in DOMAIN participants \cup {NewChatId[r]} |->
                          IF c = NewChatId[r] THEN {} ELSE participants[c]]
    /\ pc' = MovedTo(r, "ChatParticipant.objects.create",
                     [NoLocals EXCEPT !.chat = NewChatId[r]])
    /\ published' = NoPublish
    /\ delivered' = NoDelivery
    /\ UNCHANGED <<now, calls, messages, receipts, deleted_for, is_online, conn, groups, inbox>>

\* views.create_personal_chat: the two ChatParticipant.objects.create, the
\* requesting user first
CreateChatParticipant(r) ==
    /\ At(r) = "ChatParticipant.objects.create"
    /\ LET c == pc[r].chat
           u == IF ReqUser[r] \in participants[c] THEN ReqOther[r] ELSE ReqUser[r]
       IN  /\ participants' = [participants EXCEPT ![c] = @ \cup {u}]
           /\ pc' = IF u = ReqOther[r]
                    THEN MovedTo(r, "returned", [NoLocals EXCEPT !.chat = c])
                    ELSE pc
    /\ published' = NoPublish
    /\ delivered' = NoDelivery
    /\ UNCHANGED <<now, calls, messages, receipts, deleted_for, is_online, conn, groups, inbox>>

\* views.create_group_chat (a name is posted, no group_icon) up to the
\* commit of Chat.objects.create(chat_type='group'); without participants[]
\* the view answers 400
CreateGroupRow(g, ids) ==
    /\ At(g) = "idle"
    /\ ids # <<>>
    /\ participants' = [c \in DOMAIN participants \cup {NewGroupId[g]} |->
                          IF c = NewGroupId[g] THEN {} ELSE participants[c]]
    /\ pc' = MovedTo(g, "create_group_chat: admin",
                     [NoLocals EXCEPT !.chat = NewGroupId[g], !.ids = ids])
    /\ published' = NoPublish
    /\ delivered' = NoDelivery
    /\ UNCHANGED <<now, calls, messages, receipts, deleted_for, is_online, conn, groups, inbox>>

\* views.create_group_chat: ChatParticipant.objects.create of the creator
CreateGroupAdmin(g) ==
    /\ At(g) = "create_group_chat: admin"
    /\ participants' = [participants EXCEPT ![pc[g].chat] = @ \cup {GroupRequestUser[g]}]
    /\ pc' = MovedTo(g, "create_group_chat: User.objects.get",
                     [NoLocals EXCEPT !.chat = pc[g].chat, !.ids = pc[g].ids])
    /\ published' = NoPublish
    /\ delivered' = NoDelivery
    /\ UNCHANGED <<now, calls, messages, receipts, deleted_for, is_online, conn, groups, inbox>>

\* views.create_group_chat: User.objects.get(id=user_id) of the loop, which
\* raises DoesNotExist for an id of no User: the view answers with the
\* error and the group keeps the participants it has
CreateGroupGetUser(g) ==
    /\ At(g) = "create_group_chat: User.objects.get"
    /\ pc' = IF Head(pc[g].ids) \in Users
             THEN MovedTo(g, "create_group_chat: ChatParticipant.objects.create",
                          [NoLocals EXCEPT !.chat = pc[g].chat, !.ids = pc[g].ids])
             ELSE MovedTo(g, "returned", [NoLocals EXCEPT !.chat = pc[g].chat])
    /\ published' = NoPublish
    /\ delivered' = NoDelivery
    /\ UNCHANGED <<now, calls, store, is_online, conn, groups, inbox>>

\* views.create_group_chat: ChatParticipant.objects.create of the loop; a
\* user who is a participant already (unique_together chat, user) raises
\* IntegrityError
CreateGroupMember(g) ==
    /\ At(g) = "create_group_chat: ChatParticipant.objects.create"
    /\ LET c == pc[g].chat
           u == Head(pc[g].ids)
           rest == Tail(pc[g].ids)
       IN  IF u \in participants[c]
           THEN /\ pc' = MovedTo(g, "returned", [NoLocals EXCEPT !.chat = c])
                /\ UNCHANGED participants
           ELSE /\ participants' = [participants EXCEPT ![c] = @ \cup {u}]
                /\ pc' = IF rest = <<>>
                         THEN MovedTo(g, "returned", [NoLocals EXCEPT !.chat = c])
                         ELSE MovedTo(g, "create_group_chat: User.objects.get",
                                      [NoLocals EXCEPT !.chat = c, !.ids = rest])
    /\ published' = NoPublish
    /\ delivered' = NoDelivery
    /\ UNCHANGED <<now, calls, messages, receipts, deleted_for, is_online, conn, groups, inbox>>

\* views.create_group_chat, any step of it
CreateGroupChat(g) ==
    \/ \E ids \in ParticipantLists : CreateGroupRow(g, ids)
    \/ CreateGroupAdmin(g)
    \/ CreateGroupGetUser(g)
    \/ CreateGroupMember(g)

\* CallConsumer.connect: channel_layer.group_add
CallGroupAdd(k) ==
    /\ conn[k] = "new"
    /\ Idle(k)
    /\ groups' = [groups EXCEPT ![call_group_name(k)] = @ \cup {k}]
    /\ pc' = MovedTo(k, "CallConsumer.connect: accept", NoLocals)
    /\ published' = NoPublish
    /\ delivered' = NoDelivery
    /\ UNCHANGED <<now, calls, store, is_online, conn, inbox>>

\* CallConsumer.connect: self.accept(), after which the handler returns
CallAccept(k) ==
    /\ At(k) = "CallConsumer.connect: accept"
    /\ conn' = [conn EXCEPT ![k] = "open"]
    /\ pc' = Returned(k)
    /\ published' = NoPublish
    /\ delivered' = NoDelivery
    /\ UNCHANGED <<now, calls, store, is_online, groups, inbox>>

\* CallConsumer.connect, any step of it
CallConnect(k) ==
    \/ CallGroupAdd(k)
    \/ CallAccept(k)

\* CallConsumer.disconnect up to the return of group_discard
CallDiscard(k) ==
    /\ conn[k] = "open"
    /\ Idle(k)
    /\ groups' = [groups EXCEPT ![call_group_name(k)] = Discarded(@, k)]
    /\ conn' = [conn EXCEPT ![k] = "closed"]
    /\ inbox' = [inbox EXCEPT ![k] = <<>>]
    /\ pc' = MovedTo(k, "CallConsumer.disconnect: group_send", NoLocals)
    /\ published' = NoPublish
    /\ delivered' = NoDelivery
    /\ UNCHANGED <<now, calls, store, is_online>>

\* CallConsumer.disconnect: the group_send of user_left
CallSendUserLeft(k) ==
    /\ At(k) = "CallConsumer.disconnect: group_send"
    /\ Publish(call_group_name(k), UserLeftEvent(k))
    /\ pc' = Returned(k)
    /\ delivered' = NoDelivery
    /\ UNCHANGED <<now, calls, store, is_online, conn, groups>>

\* CallConsumer.disconnect, any step of it
CallDisconnect(k) ==
    \/ CallDiscard(k)
    \/ CallSendUserLeft(k)

\* CallConsumer.receive
CallReceive(k, signal_type, data) ==
    /\ conn[k] = "open"
    /\ Idle(k)
    /\ delivered' = NoDelivery
    /\ UNCHANGED <<now, calls, pc, store, is_online, conn, groups>>
    /\ IF signal_type \in {"offer", "answer", "ice_candidate"}
       THEN Publish(call_group_name(k), SignalEvent(k, signal_type, data))
       ELSE /\ published' = NoPublish
            /\ UNCHANGED inbox

\* views.initiate_call
InitiateCall(u, receiver) ==
    /\ Len(calls) < MaxCalls
    /\ calls' = Append(calls, NewCall(u, receiver))
    /\ published' = NoPublish
    /\ delivered' = NoDelivery
    /\ UNCHANGED <<now, pc, store, is_online, conn, groups, inbox>>

\* views.update_call_status up to the return of get_object_or_404(Call,
\* id=call_id), posted by any logged-in user u
UpdateCallLoad(h, u, call_id) ==
    /\ At(h) = "idle"
    /\ call_id \in 1..Len(calls)
    /\ pc' = MovedTo(h, "update_call_status: call.save",
                     [NoLocals EXCEPT !.call_id = call_id, !.user = u,
                                      !.row = <<calls[call_id]>>])
    /\ published' = NoPublish
    /\ delivered' = NoDelivery
    /\ UNCHANGED <<now, calls, store, is_online, conn, groups, inbox>>

\* views.update_call_status: the branch of the posted status and
\* call.save(), which writes every field of the loaded row
UpdateCallSave(h, status) ==
    /\ At(h) = "update_call_status: call.save"
    /\ calls' = [calls EXCEPT ![pc[h].call_id] = UpdatedCall(pc[h].row[1], status, now)]
    /\ pc' = IF h \in CallRequests THEN MovedTo(h, "returned", NoLocals) ELSE Returned(h)
    /\ published' = NoPublish
    /\ delivered' = NoDelivery
    /\ UNCHANGED <<now, store, is_online, conn, groups, inbox>>

\* views.update_call_status, any step of it
UpdateCallStatus(h, u, call_id, status) ==
    \/ UpdateCallLoad(h, u, call_id)
    \/ /\ h \in DOMAIN pc
       /\ pc[h].user = u /\ pc[h].call_id = call_id
       /\ UpdateCallSave(h, status)

\* the consumer dispatches its channel's next message to the handler named by
\* its type: chat_message, typing_indicator, user_status, read_receipt,
\* message_deleted
Deliver(k) ==
    /\ conn[k] = "open"
    /\ Idle(k)
    /\ inbox[k] # <<>>
    /\ inbox' = [inbox EXCEPT ![k] = Dequeued(@)]
    /\ delivered' = [conn |-> k, event |-> Head(inbox[k]),
                     sent |-> HandlerSends(Head(inbox[k]), k)]
    /\ published' = NoPublish
    /\ UNCHANGED <<now, calls, pc, store, is_online, conn, groups>>

\* ------------------------------------------------------ specifications
\* the initial states a specification starts from
AllOffline == is_online = [u \in Users |-> FALSE]
\* every table empty
InitEmpty == messages = <<>> /\ AllOffline /\ InitFrom({<<>>})
\* of the seeded receipts, those of the least and those of the greatest
\* draws of the two delays
ReceiptSample == SeededReceipts({1}, {1}) \cup SeededReceipts({60}, {300})
\* the message tables empty or seeded
InitMessages ==
    /\ AllOffline
    /\ InitFrom({<<>>})
    /\ \A p \in DOMAIN receipts : receipts[p] \in ReceiptSample
\* the users' is_online flags as seeded
InitUsers == messages = <<>> /\ InitFrom({<<>>})
\* the call table empty or seeded: of the ended calls, one that lasted an
\* hour, one that lasted half a minute and one dated a day back
SeedSample ==
    {<<>>, <<SeededCall("missed", 0, 0, 0)>>, <<SeededCall("declined", 0, 0, 0)>>,
     <<SeededCall("ended", 0, 2, 3600)>>, <<SeededCall("ended", 0, 2, 30)>>,
     <<SeededCall("ended", 1, 10, 3600)>>}
InitCalls == messages = <<>> /\ AllOffline /\ InitFrom(SeedSample)

\* The message store under the clock: B's connection to the personal chat c1
\* of A and B, every store operation of the WebSocket path on it, sends of
\* A and B over HTTP, and B opening the chat.
StoreConns == {"k3"}

NextStore ==
    \/ Tick(DeleteWindow)
    \/ \E k \in StoreConns : ConnectAccepted(k)
    \/ \E k \in StoreConns : Disconnect(k)
    \/ \E k \in StoreConns, content \in Contents : WsChatMessage(k, content)
    \/ \E u \in {"A", "B"}, content \in Contents : HttpSendMessage("h1", u, "c1", content)
    \/ \E p \in StoreConns \cup {"h1"} : SaveReceipts(p)
    \/ \E k \in StoreConns : SendSavedMessage(k)
    \/ \E k \in StoreConns, m \in MsgIds : WsReadReceipt(k, m)
    \/ \E k \in StoreConns : UpdateReceiptSave(k)
    \/ \E k \in StoreConns : SendReadReceipt(k)
    \/ \E k \in StoreConns, m \in MsgIds, d \in BOOLEAN : WsDeleteMessage(k, m, d)
    \/ \E k \in StoreConns : WsDeleteSave(k)
    \/ \E k \in StoreConns : SendMessageDeleted(k)
    \/ ChatDetailView("h2", "B", "c1")
    \/ \E k \in StoreConns : Deliver(k)

SpecStore == InitMessages /\ [][NextStore]_vars

\* A connection of A and one of B on the personal chat c1.
SendConns == {"k1", "k3"}

\* Sending: sequences of sends of C in the group chat c2 (over k6) and a
\* send of any user in any chat over HTTP, with store errors inside
\* save_message and send_message, at one instant.
NextSend ==
    \/ ConnectAccepted("k6")
    \/ Disconnect("k6")
    \/ \E content \in Contents : WsChatMessage("k6", content)
    \/ \E content \in Contents : WsChatMessageRaises("k6", content)
    \/ \E u \in Users, c \in ChatIds, content \in Contents :
          HttpSendMessage("h1", u, c, content)
    \/ \E p \in {"k6", "h1"} : SaveReceipts(p)
    \/ \E p \in {"k6", "h1"} : SaveReceiptsRaises(p)
    \/ SendSavedMessage("k6")
    \/ \E u \in Users, c \in ChatIds : ChatDetailView("h2", u, c)
    \/ Deliver("k6")

SpecSend == InitMessages /\ [][NextSend]_vars

\* Two devices of A and one of B on chat c1.
ChatConns == {"k1", "k2", "k3"}

\* Presence: connects and disconnects of two devices of A, next to A's
\* logins, logouts and profile updates over HTTP.
PresenceConns == {"k1", "k2"}

NextPresence ==
    \/ \E k \in PresenceConns : ConnectAccepted(k)
    \/ \E k \in PresenceConns : Disconnect(k)
    \/ LoginView("A")
    \/ LogoutView("A")
    \/ ProfileView("h1", "A")
    \/ \E k \in PresenceConns : Deliver(k)

SpecPresence == InitUsers /\ [][NextPresence]_vars

\* Typing: connects, disconnects and typing frames.
NextTyping ==
    \/ \E k \in ChatConns : ConnectAccepted(k)
    \/ \E k \in ChatConns : Disconnect(k)
    \/ \E k \in ChatConns, t \in BOOLEAN : WsTyping(k, t)
    \/ \E k \in ChatConns : Deliver(k)

SpecTyping == InitEmpty /\ [][NextTyping]_vars

\* Fan-out of the store events, from an empty store, at one instant: A
\* sends and deletes for everyone over k1, with a second device k2, and B
\* reads over k3.
NextFanout ==
    \/ \E k \in ChatConns : ConnectAccepted(k)
    \/ \E k \in ChatConns : Disconnect(k)
    \/ \E content \in Contents : WsChatMessage("k1", content)
    \/ SaveReceipts("k1")
    \/ SendSavedMessage("k1")
    \/ \E m \in MsgIds : WsReadReceipt("k3", m)
    \/ UpdateReceiptSave("k3")
    \/ SendReadReceipt("k3")
    \/ \E m \in MsgIds : WsDeleteMessage("k1", m, TRUE)
    \/ WsDeleteSave("k1")
    \/ SendMessageDeleted("k1")
    \/ \E k \in ChatConns : Deliver(k)

SpecFanout == InitEmpty /\ [][NextFanout]_vars

\* Subscribing and unsubscribing: two devices of A and one of B connect to
\* c1, send and disconnect, from an empty store, at one instant.
NextSubscribe ==
    \/ \E k \in ChatConns : ConnectAccepted(k)
    \/ \E k \in ChatConns : Disconnect(k)
    \/ \E k \in ChatConns, content \in Contents : WsChatMessage(k, content)
    \/ \E k \in ChatConns : SaveReceipts(k)
    \/ \E k \in ChatConns : SendSavedMessage(k)
    \/ \E k \in ChatConns : Deliver(k)

SpecSubscribe == InitEmpty /\ [][NextSubscribe]_vars

\* Publishing to busy subscribers: a device of A and one of B connect to
\* c1, send, type and disconnect, each publish going ahead whatever waits
\* on the subscribers' channels, from an empty store, at one instant.
NextOverflow ==
    \/ \E k \in OverflowConns : ConnectAccepted(k)
    \/ \E k \in OverflowConns : Disconnect(k)
    \/ \E k \in OverflowConns, content \in Contents : WsChatMessage(k, content)
    \/ \E k \in OverflowConns : SaveReceipts(k)
    \/ \E k \in OverflowConns : SendSavedMessage(k)
    \/ \E k \in OverflowConns, t \in BOOLEAN : WsTyping(k, t)
    \/ \E k \in OverflowConns : Deliver(k)

SpecOverflow == InitEmpty /\ [][NextOverflow]_vars

\* Deletion under the clock, from an empty store: B sends in c1 over HTTP;
\* B deletes over the connection k3, A and B delete over HTTP and A stars
\* the message.
NextDelete ==
    \/ Tick(DeleteWindow)
    \/ \E k \in StoreConns : ConnectAccepted(k)
    \/ \E k \in StoreConns : Disconnect(k)
    \/ \E content \in Contents : HttpSendMessage("h1", "B", "c1", content)
    \/ SaveReceipts("h1")
    \/ \E k \in StoreConns, m \in MsgIds, d \in BOOLEAN : WsDeleteMessage(k, m, d)
    \/ \E k \in StoreConns : WsDeleteSave(k)
    \/ \E k \in StoreConns : SendMessageDeleted(k)
    \/ \E u \in {"A", "B"}, m \in MsgIds, d \in BOOLEAN : HttpDeleteMessage("h2", u, m, d)
    \/ \E m \in MsgIds : StarMessage("h3", "A", m)
    \/ \E k \in StoreConns : Deliver(k)

SpecDelete == InitEmpty /\ [][NextDelete]_vars

\* Refused handshakes: a device of A on c1, C asking for c1 (of which C is
\* no participant) and A asking for the chat id c0 that names no chat.
RejectConns == {"k1", "k4", "k5"}

NextReject ==
    \/ \E k \in RejectConns : Connect(k)
    \/ \E k \in RejectConns : Disconnect(k)
    \/ \E k \in RejectConns : Deliver(k)

SpecReject == InitMessages /\ [][NextReject]_vars

\* One-to-one calls of A to B next to the seeded calls, under a clock that
\* steps by one tick; B and A post three statuses, in concurrent
\* requests that are numbered in the order in which they load their call.
NextCall ==
    \/ Tick(1)
    \/ InitiateCall("A", "B")
    \/ \E q \in CallRequests, id \in CallIds, st \in CALL_STATUS :
          /\ \A earlier \in CallRequests :
                CallRequestNo[earlier] < CallRequestNo[q] => earlier \in DOMAIN pc
          /\ UpdateCallStatus(q, CallRequestUser[q], id, st)

SpecCall == InitCalls /\ [][NextCall]_vars

\* Sends over a connection of A to c1 and one of C to the group chat c2,
\* with store errors inside save_message, from an empty store.
SaveConns == {"k1", "k6"}

NextSave ==
    \/ \E k \in SaveConns : ConnectAccepted(k)
    \/ \E k \in SaveConns : Disconnect(k)
    \/ \E k \in SaveConns, content \in Contents : WsChatMessage(k, content)
    \/ \E k \in SaveConns : SaveReceipts(k)
    \/ \E k \in SaveConns : SendSavedMessage(k)
    \/ \E k \in SaveConns, content \in Contents : WsChatMessageRaises(k, content)
    \/ \E k \in SaveConns : SaveReceiptsRaises(k)
    \/ \E k \in SaveConns : Deliver(k)

SpecSave == InitEmpty /\ [][NextSave]_vars

\* Frames of every type on B's connection k3 to c1, next to a connection of
\* A, at one instant.
NextFrames ==
    \/ \E k \in SendConns : ConnectAccepted(k)
    \/ \E k \in SendConns : Disconnect(k)
    \/ \E t \in ChatFrameTypes : WsReceive("k3", t)
    \/ SaveReceipts("k3")
    \/ SendSavedMessage("k3")
    \/ UpdateReceiptSave("k3")
    \/ WsDeleteSave("k3")
    \/ SendReadReceipt("k3")
    \/ SendMessageDeleted("k3")
    \/ \E k \in SendConns : Deliver(k)

SpecFrames == InitMessages /\ [][NextFrames]_vars

\* Message order: C and A send in the group chat c2 while they connect and
\* disconnect, from an empty store, at one instant.
NextFifo ==
    \/ \E k \in FifoConns : ConnectAccepted(k)
    \/ \E k \in FifoConns : Disconnect(k)
    \/ \E k \in FifoConns, content \in Contents : WsChatMessage(k, content)
    \/ \E k \in FifoConns : SaveReceipts(k)
    \/ \E k \in FifoConns : SendSavedMessage(k)
    \/ \E k \in FifoConns : Deliver(k)

SpecFifo == InitEmpty /\ [][NextFifo]_vars

\* Opening chats over HTTP under the clock, with sends in the personal chat
\* c1 and the group chat c2.
NextOpen ==
    \/ Tick(DeleteWindow)
    \/ \E u \in Users, c \in ChatIds, content \in Contents :
          HttpSendMessage("h1", u, c, content)
    \/ SaveReceipts("h1")
    \/ \E u \in Users, c \in ChatIds : ChatDetailView("h2", u, c)

SpecOpen == InitMessages /\ [][NextOpen]_vars

\* What the sender's connection gets to see of a read: A sends in c1 over
\* k1, B reads over k3 or by opening the chat.
NextSeen ==
    \/ \E k \in SendConns : ConnectAccepted(k)
    \/ \E k \in SendConns : Disconnect(k)
    \/ \E content \in Contents : WsChatMessage("k1", content)
    \/ SaveReceipts("k1")
    \/ SendSavedMessage("k1")
    \/ \E m \in MsgIds : WsReadReceipt("k3", m)
    \/ UpdateReceiptSave("k3")
    \/ SendReadReceipt("k3")
    \/ ChatDetailView("h2", "B", "c1")
    \/ \E k \in SendConns : Deliver(k)

SpecSeen == InitEmpty /\ [][NextSeen]_vars

\* WebRTC signalling on one call: two devices of A and one of B.
CallConns == {"v1", "v2", "v3"}

NextSignal ==
    \/ \E k \in CallConns : CallConnect(k)
    \/ \E k \in CallConns : CallDisconnect(k)
    \/ \E k \in CallConns, st \in SignalFrameTypes, d \in SignalData :
          CallReceive(k, st, d)
    \/ \E k \in CallConns : Deliver(k)

SpecSignal == InitEmpty /\ [][NextSignal]_vars

\* Leaving the group chat c2: C (over k6) and A (over k7) send, type and
\* read in c2, and C pins chats and leaves the group over HTTP.
NextLeave ==
    \/ \E k \in FifoConns : Connect(k)
    \/ \E k \in FifoConns : Disconnect(k)
    \/ \E content \in Contents : WsChatMessage("k6", content)
    \/ SaveReceipts("k6")
    \/ SendSavedMessage("k6")
    \/ \E t \in BOOLEAN : WsTyping("k7", t)
    \/ \E m \in MsgIds : WsReadReceipt("k7", m)
    \/ UpdateReceiptSave("k7")
    \/ SendReadReceipt("k7")
    \/ \E c \in ChatIds : LeaveGroup("h2", "C", c)
    \/ \E c \in ChatIds : PinChat("h1", "C", c)
    \/ \E k \in FifoConns : Deliver(k)

SpecLeave == InitEmpty /\ [][NextLeave]_vars

\* Frames that name a message of another chat: A's connection k1 to the
\* personal chat c1, while A and B send in the group chat c2 over HTTP.
NextCross ==
    \/ Tick(DeleteWindow)
    \/ ConnectAccepted("k1")
    \/ Disconnect("k1")
    \/ \E u \in {"A", "B"}, content \in Contents : HttpSendMessage("h1", u, "c2", content)
    \/ SaveReceipts("h1")
    \/ \E m \in MsgIds : WsReadReceipt("k1", m)
    \/ UpdateReceiptSave("k1")
    \/ SendReadReceipt("k1")
    \/ \E m \in MsgIds, d \in BOOLEAN : WsDeleteMessage("k1", m, d)
    \/ WsDeleteSave("k1")
    \/ SendMessageDeleted("k1")
    \/ Deliver("k1")

SpecCross == InitEmpty /\ [][NextCross]_vars

\* A third user at a call: A calls B, a device of A, one of B and one of C
\* connect to the call's signalling group, and C posts call statuses.
IntruderConns == {"v1", "v2", "v4"}

NextIntrude ==
    \/ InitiateCall("A", "B")
    \/ \E k \in IntruderConns : CallConnect(k)
    \/ \E k \in IntruderConns : CallDisconnect(k)
    \/ \E k \in IntruderConns, st \in SignalFrameTypes, d \in SignalData :
          CallReceive(k, st, d)
    \/ \E id \in CallIds, st \in CALL_STATUS : UpdateCallStatus("h1", "C", id, st)
    \/ \E k \in IntruderConns : Deliver(k)

SpecIntrude == InitEmpty /\ [][NextIntrude]_vars

\* Concurrent senders under the clock: C (over k6) and A (over k7) send in
\* the group chat c2, each handler awaiting save_message before its
\* group_send.
NextRace ==
    \/ Tick(DeleteWindow)
    \/ \E k \in FifoConns : ConnectAccepted(k)
    \/ \E k \in FifoConns, content \in Contents : WsChatMessage(k, content)
    \/ \E k \in FifoConns : SaveReceipts(k)
    \/ \E k \in FifoConns : SendSavedMessage(k)
    \/ \E k \in FifoConns : Deliver(k)

SpecRace == InitEmpty /\ [][NextRace]_vars

\* Concurrent create_personal_chat requests: of A for C twice, of C for A,
\* and of A for B, next to a create_group_chat request of A.
NextCreate ==
    \/ \E r \in Requests : CreateChatLookup(r)
    \/ \E r \in Requests : CreateChatRow(r)
    \/ \E r \in Requests : CreateChatParticipant(r)
    \/ \E g \in GroupRequests : CreateGroupChat(g)

SpecCreate == InitEmpty /\ [][NextCreate]_vars

\* Read receipts next to other users' rows: B's connection k3 to c1,
\* messages of any user in c1 and in the group chat c2, and a call of A to B.
NextReceipt ==
    \/ InitiateCall("A", "B")
    \/ \E k \in StoreConns : ConnectAccepted(k)
    \/ \E k \in StoreConns : Disconnect(k)
    \/ \E u \in Users, c \in ChatIds, content \in Contents :
          HttpSendMessage("h1", u, c, content)
    \/ SaveReceipts("h1")
    \/ \E k \in StoreConns, m \in MsgIds : WsReadReceipt(k, m)
    \/ \E k \in StoreConns : UpdateReceiptSave(k)
    \/ \E k \in StoreConns : SendReadReceipt(k)
    \/ \E k \in StoreConns : Deliver(k)

SpecReceipt == InitMessages /\ [][NextReceipt]_vars

\* Unread counts in the group chat c2: C sends over k6, with store errors
\* inside save_message, and A and B open the chat.
NextUnread ==
    \/ ConnectAccepted("k6")
    \/ Disconnect("k6")
    \/ \E content \in Contents : WsChatMessage("k6", content)
    \/ SaveReceipts("k6")
    \/ SendSavedMessage("k6")
    \/ SaveReceiptsRaises("k6")
    \/ \E u \in {"A", "B"} : ChatDetailView("h2", u, "c2")
    \/ Deliver("k6")

SpecUnread == InitEmpty /\ [][NextUnread]_vars

\* Two spellings of one chat id: A's connection k1 names c1 as str(uuid)
\* spells it, B's connection k8 names it without hyphens; A sends in c1 and
\* B reads.
SpellConns == {"k1", "k8"}

NextSpell ==
    \/ \E k \in SpellConns : ConnectAccepted(k)
    \/ \E k \in SpellConns : Disconnect(k)
    \/ \E content \in Contents : WsChatMessage("k1", content)
    \/ SaveReceipts("k1")
    \/ SendSavedMessage("k1")
    \/ \E m \in MsgIds : WsReadReceipt("k8", m)
    \/ UpdateReceiptSave("k8")
    \/ SendReadReceipt("k8")
    \/ \E k \in SpellConns : Deliver(k)

SpecSpell == InitEmpty /\ [][NextSpell]_vars

\* ------------------------------------------------------------- claims
ReceiptsOf(rs, id) == {p \in DOMAIN rs : p[1] = id}
LiveConnections(cs, u) == {k \in Conns : ConnUser[k] = u /\ cs[k] = "open"}
StatusRank(st) == CASE st = "sent" -> 0 [] st = "delivered" -> 1 [] OTHER -> 2
FanoutTypes == {"chat_message", "read_receipt", "user_status", "message_deleted"}
ReadBy(m, u) == <<m, u>> \in DOMAIN receipts /\ receipts[<<m, u>>].status = "read"
TerminalStatus == {"ended", "missed", "declined", "failed"}
\* the edges initiated -> ringing -> ongoing -> ended and initiated/ringing ->
\* missed/declined/failed, and the moves composed of them
ForwardEdges ==
    ({"initiated"} \X (CALL_STATUS \ {"initiated"}))
       \cup ({"ringing"} \X (CALL_STATUS \ {"initiated", "ringing"}))
       \cup {<<"ongoing", "ended">>}
\* the positions of a send between the commit of its Message row and the
\* end of its receipt loop
SavePositions ==
    {"save_message: other_participants", "save_message: MessageReceipt.objects.create"}
\* a send of message id stands in its receipt loop
Saving(pcs, id) ==
    \E p \in DOMAIN pcs : pcs[p].at \in SavePositions /\ pcs[p].message_id = id
\* process p has returned from the position at in this step
ReturnsFrom(p, at) == At(p) = at /\ p \notin DOMAIN pc'

\* C1: once the send that persisted a Message has finished its receipt
\* loop, the message's receipts are exactly {message} x (participants of
\* its chat, minus the sender); while the loop runs they are among these;
\* every receipt is created with status 'sent', and no step removes a
\* receipt.
C1_ReceiptPerOtherParticipant ==
    [][ /\ \A id \in 1..Len(messages') :
              LET others == participants'[messages'[id].chat] \ {messages'[id].sender}
              IN  IF Saving(pc', id)
                  THEN ReceiptsOf(receipts', id) \subseteq {id} \X others
                  ELSE ReceiptsOf(receipts', id) = {id} \X others
        /\ \A p \in DOMAIN receipts' \ DOMAIN receipts : receipts'[p].status = "sent"
        /\ DOMAIN receipts \subseteq DOMAIN receipts' ]_vars

\* C2: no step lowers the status of a receipt in the order
\* sent < delivered < read.
C2_ReceiptStatusMonotonic ==
    [][ \A p \in DOMAIN receipts :
           /\ p \in DOMAIN receipts'
           /\ StatusRank(receipts'[p].status) >= StatusRank(receipts[p].status) ]_vars

\* a read_receipt frame has just been handled for a receipt the sender of
\* the frame owns, and that receipt is 'read'
C2_Witness ==
    /\ published.event.type = "read_receipt"
    /\ <<published.event.message_id, published.event.user_id>> \in DOMAIN receipts
    /\ receipts[<<published.event.message_id, published.event.user_id>>].status = "read"
    /\ now > 0

\* C3: once a receipt's read_at is set, no step changes it.
C3_ReadAtSetOnce ==
    [][ \A p \in DOMAIN receipts :
           receipts[p].read_at # NoTime =>
              /\ p \in DOMAIN receipts'
              /\ receipts'[p].read_at = receipts[p].read_at ]_vars

\* C4: a user with an accepted, not yet disconnected connection, none of
\* whose connections is inside its connect or disconnect handler, is stored
\* as online.
C4_OnlineWhileConnected ==
    \A u \in Users :
       (/\ LiveConnections(conn, u) # {}
        /\ \A k \in Conns : ConnUser[k] = u => Idle(k)) => is_online[u]

\* C5: a step that publishes user_status(is_online=false) for a user leaves
\* that user without a live connection.
C5_OfflineOnlyAtZero ==
    [][ (published'.event.type = "user_status" /\ ~published'.event.flag) =>
           LiveConnections(conn', published'.event.user_id) = {} ]_vars

\* C6: a step that publishes user_status(is_online=true) for a user is made
\* by the only live connection of that user.
C6_OnlineOnlyFromZero ==
    [][ (published'.event.type = "user_status" /\ published'.event.flag) =>
           LiveConnections(conn, published'.event.user_id)
              \subseteq {published'.event.origin} ]_vars

\* the handler of connection k leaves the position at in this step
LeavesFrom(k, at) == At(k) = at /\ At(k)' # at

\* C7: a delete_message frame with delete_for_everyone=true for message m
\* from connection k changes no message and the handler returns unless m
\* exists and ConnUser[k] is its sender; else the handler's next step, if
\* now - created_at <= 1 hour, marks m deleted for everyone with the
\* tombstone as content and goes on to its group_send; later than that it
\* changes no message and returns.  The group_send publishes
\* message_deleted for m, and message_deleted with the flag is published by
\* no other step.
C7_DeleteForEveryoneIff ==
    [][ /\ \A k \in StoreConns, m \in MsgIds :
              /\ WsDeleteMessage(k, m, TRUE) =>
                    /\ messages' = messages
                    /\ IF m <= Len(messages) /\ messages[m].sender = ConnUser[k]
                       THEN /\ At(k)' = "delete_message: message.save"
                            /\ pc'[k].message_id = m
                            /\ pc'[k].flag
                       ELSE k \notin DOMAIN pc'
              /\ (LeavesFrom(k, "delete_message: message.save") /\ pc[k].message_id = m) =>
                    IF now - messages[m].created_at <= DeleteWindow
                    THEN /\ messages'[m].deleted_for_everyone
                         /\ messages'[m].content = Tombstone
                         /\ At(k)' = "handle_delete_message: group_send"
                         /\ pc'[k].message_id = m
                         /\ pc'[k].flag
                    ELSE /\ messages' = messages
                         /\ k \notin DOMAIN pc'
        /\ \A k \in StoreConns :
              ReturnsFrom(k, "handle_delete_message: group_send") =>
                 published' = [topic |-> chat_group_name(k),
                               event |-> MessageDeletedEvent(k, pc[k].message_id,
                                                             pc[k].flag)]
        /\ (published'.event.type = "message_deleted" /\ published'.event.flag) =>
              /\ ReturnsFrom(published'.event.origin, "handle_delete_message: group_send")
              /\ pc[published'.event.origin].flag ]_vars

\* a delete for everyone has just been announced, exactly one hour after
\* the message was created
C7_Witness ==
    /\ published.event.type = "message_deleted"
    /\ published.event.flag
    /\ messages[published.event.message_id].deleted_for_everyone
    /\ messages[published.event.message_id].content = Tombstone
    /\ now - messages[published.event.message_id].created_at = DeleteWindow

\* C8: the typing_indicator handler never writes to the socket of the
\* connection whose typing frame produced the event.
C8_NoTypingEcho ==
    (delivered.event.type = "typing_indicator" /\ delivered.sent) =>
       delivered.conn # delivered.event.origin

\* the connection that sent a typing frame has just handled its own
\* typing_indicator event and written nothing
C8_Witness ==
    /\ delivered.event.type = "typing_indicator"
    /\ delivered.conn = delivered.event.origin
    /\ ~delivered.sent

\* C9: a typing_indicator event handled by any connection other than the
\* one that sent the typing frame is written to that connection's socket.
C9_TypingToAllOtherConnections ==
    (delivered.event.type = "typing_indicator"
        /\ delivered.conn # delivered.event.origin) => delivered.sent

C11_RejectedConnectionLeavesNoTrace ==
    [][ \A k \in Conns :
           ~check_participant(k) =>
              /\ k \notin groups'[chat_group_name(k)]
              /\ (conn'[k] # conn[k] \/ At(k)' # At(k)) =>
                    /\ store' = store
                    /\ is_online' = is_online
                    /\ published' = NoPublish ]_vars

\* C12: no step changes the status, answered_at, ended_at or duration of
\* a call whose status is ended, missed, declined or failed.
C12_TerminalCallFrozen ==
    [][ \A id \in 1..Len(calls) :
           calls[id].status \in TerminalStatus =>
              /\ calls'[id].status = calls[id].status
              /\ calls'[id].answered_at = calls[id].answered_at
              /\ calls'[id].ended_at = calls[id].ended_at
              /\ calls'[id].duration = calls[id].duration ]_vars

\* C13: every change of a call's status goes along a forward edge; a call
\* is never moved from ongoing to missed or declined, nor back to an
\* earlier status.
C13_StatusFollowsForwardEdges ==
    [][ \A id \in 1..Len(calls) :
           calls'[id].status # calls[id].status =>
              <<calls[id].status, calls'[id].status>> \in ForwardEdges ]_vars

\* d is the number of whole seconds in a time difference of that many
\* ticks: the fraction of a second is dropped
WholeSeconds(d, ticks) ==
    IF ticks >= 0
    THEN d >= 0 /\ d * TicksPerSecond <= ticks /\ ticks < (d + 1) * TicksPerSecond
    ELSE d <= 0 /\ ticks <= d * TicksPerSecond /\ (d - 1) * TicksPerSecond < ticks

\* the call has the duration that belongs to an ended call: ended_at -
\* answered_at in whole seconds if answered_at is set, else 0
DurationOf(call) ==
    IF call.answered_at # NoTime
    THEN WholeSeconds(call.duration, TimeOf(call.ended_at) - TimeOf(call.answered_at))
    ELSE call.duration = 0

\* C14: a request that ends a call leaves the call 'ended' with
\* ended_at = now and duration = ended_at - answered_at in whole seconds if
\* answered_at is set and 0 otherwise; every call that is 'ended', the
\* seeded ones included, has that duration; and a call without answered_at
\* has duration 0.
C14_DurationOfEndedCall ==
    [][ /\ \A h \in CallRequests :
              UpdateCallSave(h, "ended") =>
                 /\ calls'[pc[h].call_id].status = "ended"
                 /\ calls'[pc[h].call_id].ended_at = {now}
                 /\ DurationOf(calls'[pc[h].call_id])
        /\ \A cs \in {calls, calls'} : \A id \in 1..Len(cs) :
              /\ cs[id].status = "ended" => DurationOf(cs[id])
              /\ cs[id].answered_at = NoTime => cs[id].duration = 0 ]_vars

\* the seeded call that was answered ten seconds after a day before the
\* seeding has been ended again a fraction of a second after the seeding:
\* its duration is the 86390 whole seconds, the fraction is dropped
C14_Witness ==
    \E id \in 1..Len(calls) :
       /\ calls[id].status = "ended"
       /\ calls[id].answered_at = {timedelta(0, 10) - timedelta(1, 0)}
       /\ calls[id].ended_at = {now}
       /\ now > 0 /\ now < TicksPerSecond
       /\ calls[id].duration = 86390

\* C15: after every step a call with status ongoing has answered_at set,
\* and no step changes an answered_at that was set.
C15_AnsweredAtStampedOnce ==
    [][ \A id \in 1..Len(calls') :
           /\ calls'[id].status = "ongoing" => calls'[id].answered_at # NoTime
           /\ (id <= Len(calls) /\ calls[id].answered_at # NoTime) =>
                 calls'[id].answered_at = calls[id].answered_at ]_vars

\* C16: a step that publishes a chat_message event names a Message row
\* that exists after the step, sent by the event's user in the chat of the
\* publishing connection; a step of save_message in which the store raises
\* publishes nothing, and the handler returns from it without a group_send.
C16_NoAnnouncementWithoutRow ==
    [][ /\ published'.event.type = "chat_message" =>
              /\ published'.event.message_id \in 1..Len(messages')
              /\ messages'[published'.event.message_id].sender = published'.event.user_id
              /\ messages'[published'.event.message_id].chat = to_python(published'.topic)
        /\ \A k \in SaveConns :
              (SaveReceiptsRaises(k) \/ \E content \in Contents : WsChatMessageRaises(k, content))
                 => /\ published' = NoPublish
                    /\ inbox' = inbox
                    /\ k \notin DOMAIN pc' ]_vars

\* a chat_message event for a stored message of the group chat has just
\* been published to the sender's own subscribed connection
C16_Witness ==
    /\ published.event.type = "chat_message"
    /\ published.topic = "c2"
    /\ published.event.message_id \in 1..Len(messages)
    /\ messages[published.event.message_id].chat = "c2"
    /\ inbox["k6"] = <<published.event>>

\* C17: whenever no handler stands at an await and no channel has an
\* undispatched event, every stored message has a receipt for each other
\* participant of its chat.  (No handler keeps a retry pending or writes an
\* error frame: when save_message returns None, handle_chat_message does
\* nothing.)
C17_MissingReceiptsReconciled ==
    (DOMAIN pc = {} /\ \A k \in Conns : inbox[k] = <<>>) =>
       \A id \in 1..Len(messages) :
          \A u \in participants[messages[id].chat] \ {messages[id].sender} :
             <<id, u>> \in DOMAIN receipts

\* C18: when a connection of user B handles a read_receipt frame for a
\* message m of its chat that another user A sent (the send has finished
\* its receipt loop), the handler loads B's receipt of m and saves it as
\* 'read' with read_at = now, and the handler's group_send
\* queues the read_receipt event (m, B) on every open connection of A to
\* that chat.
C18_ReadReceiptReachesSender ==
    [][ \A k \in SpellConns, m \in MsgIds :
           (/\ m <= Len(messages)
            /\ ~Saving(pc, m)
            /\ messages[m].chat = ConnChat[k]
            /\ messages[m].sender # ConnUser[k]) =>
              /\ WsReadReceipt(k, m) => At(k)' = "update_receipt: receipt.save"
              /\ (LeavesFrom(k, "update_receipt: receipt.save") /\ pc[k].message_id = m) =>
                    /\ <<m, ConnUser[k]>> \in DOMAIN receipts'
                    /\ receipts'[<<m, ConnUser[k]>>].status = "read"
                    /\ receipts'[<<m, ConnUser[k]>>].read_at = {now}
              /\ (ReturnsFrom(k, "handle_read_receipt: group_send")
                     /\ pc[k].message_id = m) =>
                    \A j \in Conns :
                       (/\ conn[j] = "open"
                        /\ ConnChat[j] = ConnChat[k]
                        /\ ConnUser[j] = messages[m].sender) =>
                          inbox'[j] = Append(inbox[j], ReadReceiptEvent(k, m)) ]_vars

\* C19: a read_receipt frame for a message of which the requester has no
\* receipt, and a delete_message frame for a message that does not exist
\* or that the requester did not send, change no stored data, and no
\* read_receipt or message_deleted event is published for such a message.
C19_UnmatchedFrameIsNoOp ==
    [][ /\ \A k \in StoreConns, m \in MsgIds :
              /\ (WsReadReceipt(k, m) /\ <<m, ConnUser[k]>> \notin DOMAIN receipts) =>
                    store' = store
              /\ \A d \in BOOLEAN :
                    (/\ WsDeleteMessage(k, m, d)
                     /\ ~(m <= Len(messages) /\ messages[m].sender = ConnUser[k])) =>
                       store' = store /\ k \notin DOMAIN pc'
        /\ published'.event.type = "read_receipt" =>
              <<published'.event.message_id, published'.event.user_id>>
                 \in DOMAIN receipts'
        /\ published'.event.type = "message_deleted" =>
              /\ published'.event.message_id \in 1..Len(messages')
              /\ messages'[published'.event.message_id].sender
                    = ConnUser[published'.event.origin] ]_vars

\* C20: a step that publishes message_deleted for message m leaves m marked
\* deleted for everyone with the tombstone as content, and a step of the
\* handler of a delete_message frame that takes it to its group_send has
\* changed the store.
C20_DeletedEventMeansDeleted ==
    [][ /\ published'.event.type = "message_deleted" =>
              /\ published'.event.message_id \in 1..Len(messages')
              /\ messages'[published'.event.message_id].deleted_for_everyone
              /\ messages'[published'.event.message_id].content = Tombstone
        /\ \A k \in StoreConns :
              (/\ At(k) # "handle_delete_message: group_send"
               /\ At(k)' = "handle_delete_message: group_send") => store' # store ]_vars

\* C21: a message that is deleted for everyone carries the tombstone as
\* content, and no step clears the flag or changes the content of such a
\* message.
C21_DeletedForEveryoneStays ==
    [][ \A id \in 1..Len(messages) :
           messages[id].deleted_for_everyone =>
              /\ messages[id].content = Tombstone
              /\ id <= Len(messages')
              /\ messages'[id].deleted_for_everyone
              /\ messages'[id].content = Tombstone ]_vars

\* C22: an offer, answer or ice_candidate frame on call connection k is
\* published with its type, its data and k's user id and queued for every
\* connection subscribed to the call; a frame of another type publishes
\* nothing and changes no stored data; and a connection that handles a
\* webrtc_signal event writes it to its socket exactly if it is not the
\* connection that sent the frame.
C22_SignalToAllOtherConnections ==
    [][ /\ \A k \in CallConns, st \in SignalFrameTypes, d \in SignalData :
              CallReceive(k, st, d) =>
                 IF st \in {"offer", "answer", "ice_candidate"}
                 THEN /\ published'.topic = call_group_name(k)
                      /\ published'.event.type = "webrtc_signal"
                      /\ published'.event.signal_type = st
                      /\ published'.event.data = d
                      /\ published'.event.user_id = ConnUser[k]
                      /\ \A j \in groups[call_group_name(k)] :
                            inbox'[j] = Append(inbox[j], published'.event)
                      /\ store' = store /\ calls' = calls
                 ELSE /\ published' = NoPublish
                      /\ inbox' = inbox
                      /\ store' = store /\ calls' = calls
        /\ delivered'.event.type = "webrtc_signal" =>
              (delivered'.sent <=> delivered'.conn # delivered'.event.origin) ]_vars

C24_UnknownFrameIgnored ==
    [][ \A k \in SendConns, t \in ChatFrameTypes :
           (/\ t \notin {"chat_message", "typing", "read_receipt", "delete_message"}
            /\ WsReceive(k, t)) =>
              /\ store' = store
              /\ groups' = groups
              /\ is_online' = is_online
              /\ conn' = conn /\ conn[k] = "open"
              /\ inbox' = inbox
              /\ pc' = pc
              /\ published' = NoPublish
              /\ delivered' = NoDelivery ]_vars

\* both connections are open with an event still queued, a message is
\* stored, and the last step published nothing and wrote to no socket, as
\* the step of a frame of unknown type does
C24_Witness ==
    /\ conn["k1"] = "open" /\ conn["k3"] = "open"
    /\ Len(messages) = 1
    /\ inbox["k1"] # <<>> /\ inbox["k3"] # <<>>
    /\ published = NoPublish
    /\ delivered = NoDelivery

\* C25: the chat_message events of one publishing connection wait on
\* every channel in the order of their message ids, which is the order in
\* which the frames were handled, and when a connection handles one of
\* them, all those still waiting on its channel have a higher message id.
C25_PerPublisherFifo ==
    [][ \A k \in Conns :
           /\ \A i, j \in 1..Len(inbox'[k]) :
                 (/\ i < j
                  /\ inbox'[k][i].type = "chat_message"
                  /\ inbox'[k][j].type = "chat_message"
                  /\ inbox'[k][i].origin = inbox'[k][j].origin) =>
                    inbox'[k][i].message_id < inbox'[k][j].message_id
           /\ (delivered'.conn = k /\ delivered'.event.type = "chat_message") =>
                 \A i \in 1..Len(inbox'[k]) :
                    (/\ inbox'[k][i].type = "chat_message"
                     /\ inbox'[k][i].origin = delivered'.event.origin) =>
                       inbox'[k][i].message_id > delivered'.event.message_id ]_vars

\* A's connection has just handled the event of the first message C sent
\* over k6, while the event of C's second message waits on its channel
C25_Witness ==
    /\ delivered.conn = "k7"
    /\ delivered.event.type = "chat_message"
    /\ delivered.event.origin = "k6"
    /\ delivered.event.message_id = 1
    /\ \E i \in 1..Len(inbox["k7"]) :
          /\ inbox["k7"][i].type = "chat_message"
          /\ inbox["k7"][i].origin = "k6"
          /\ inbox["k7"][i].message_id = 2

\* chat_detail_view of user u for chat c ends in this step
ChatOpened(h, u, c) ==
    /\ ReturnsFrom(h, "chat_detail_view: get_or_create")
    /\ pc[h].user = u
    /\ pc[h].chat = c

\* C26: when chat_detail_view of user u for chat c ends, every receipt of
\* u that was 'sent' or 'delivered' and belongs to a message of c not sent
\* by u is 'read' with read_at = now, and every other receipt (another
\* user's, another chat's, or already 'read') and every message is as it
\* was.
C26_ChatOpenMarksRead ==
    [][ \A u \in Users, c \in ChatIds :
           ChatOpened("h2", u, c) =>
              /\ DOMAIN receipts' = DOMAIN receipts
              /\ messages' = messages
              /\ \A p \in DOMAIN receipts :
                    IF /\ p[2] = u
                       /\ messages[p[1]].chat = c
                       /\ messages[p[1]].sender # u
                       /\ receipts[p].status # "read"
                    THEN /\ receipts'[p].status = "read"
                         /\ receipts'[p].read_at = {now}
                         /\ receipts'[p].delivered_at = receipts[p].delivered_at
                    ELSE receipts'[p] = receipts[p] ]_vars

\* C27: when chat_detail_view of B for c1 ends while A's connection k1 is
\* open and B's receipt of a message m of A was not 'read', the receipt is
\* 'read' and the read_receipt event of B for m has been published to k1's
\* group or waits on k1's channel.  (No other code announces a read later:
\* events are published by the handler run that changed the row or by
\* nothing.)
C27_SenderSeesRead ==
    [][ \A m \in 1..Len(messages) :
           (/\ ChatOpened("h2", "B", "c1")
            /\ messages[m].sender = "A"
            /\ conn["k1"] = "open"
            /\ <<m, "B">> \in DOMAIN receipts
            /\ receipts[<<m, "B">>].status # "read")
              => /\ receipts'[<<m, "B">>].status = "read"
                 /\ \E i \in 1..Len(inbox'["k1"]) :
                       /\ inbox'["k1"][i].type = "read_receipt"
                       /\ inbox'["k1"][i].message_id = m
                       /\ inbox'["k1"][i].user_id = "B" ]_vars

\* C28: a chat connection that is closed is in no group of its chat, has
\* no event queued and handles none, also while its disconnect handler
\* publishes its own offline event; and no step of the disconnect handler
\* changes a stored Message, receipt or participant.
C28_NothingAfterDisconnect ==
    [][ \A k \in ChatConns :
           /\ conn'[k] = "closed" =>
                 /\ k \notin groups'[chat_group_name(k)]
                 /\ inbox'[k] = <<>>
                 /\ delivered'.conn # k
           /\ (conn[k] = "closed" /\ At(k)' # At(k)) \/ (conn[k] = "open" /\ conn'[k] = "closed")
                 => store' = store ]_vars

\* B's connection is closed and has just published its own offline event
\* to the chat's group, in which a connection of A is still subscribed; the
\* message B sent over it is stored with A's receipt, and nothing is queued
\* on B's channel
C28_Witness ==
    /\ conn["k3"] = "closed"
    /\ Len(messages) = 1 /\ messages[1].sender = "B"
    /\ <<1, "A">> \in DOMAIN receipts
    /\ published = [topic |-> "c1", event |-> UserStatusEvent("k3", FALSE)]
    /\ groups["c1"] # {}
    /\ inbox["k3"] = <<>>

\* C29: an open connection is in the group of its chat, and for a
\* connection that is in the group before and after a step: a publish to
\* the group appends exactly one copy of the event to its channel, a
\* dispatch removes exactly the head of its channel and hands it to the
\* handler, and any other step leaves its channel as it was.
C29_ExactlyOnce ==
    [][ \A k \in OverflowConns :
           /\ conn'[k] = "open" => k \in groups'[chat_group_name(k)]
           /\ (k \in groups[chat_group_name(k)] /\ k \in groups'[chat_group_name(k)]) =>
                 IF published'.event.type # "none" /\ published'.topic = chat_group_name(k)
                 THEN inbox'[k] = Append(inbox[k], published'.event)
                 ELSE IF delivered'.conn = k
                 THEN /\ inbox[k] # <<>>
                      /\ delivered'.event = Head(inbox[k])
                      /\ inbox'[k] = Tail(inbox[k])
                 ELSE inbox'[k] = inbox[k] ]_vars

\* C30: from every call that is 'initiated', each other status of
\* CALL_STATUS is the status of a row that some sequence of
\* update_call_status requests produces.
C30_EveryStatusReachable ==
    \A id \in 1..Len(calls) :
       calls[id].status = "initiated" =>
          \A st \in CALL_STATUS :
             \E c \in CallsAfter({calls[id]}, MaxRequests) : c.status = st

\* C31: a handler of a chat_message frame that has committed a Message
\* row keeps working on that row until its group_send, and its group_send
\* publishes the chat_message event of that row to the chat's group.  (The
\* event is published by the handler run that saved the row or by nothing:
\* no other code announces a stored message later.)
C31_PersistedMessageAnnounced ==
    [][ \A k \in SaveConns :
           /\ At(k) \in SavePositions =>
                 /\ k \in DOMAIN pc'
                 /\ pc'[k].at \in SavePositions \cup {"handle_chat_message: group_send"}
                 /\ pc'[k].message_id = pc[k].message_id
           /\ ReturnsFrom(k, "handle_chat_message: group_send") =>
                 published' = [topic |-> chat_group_name(k),
                               event |-> ChatMessageEvent(k, pc[k].message_id)] ]_vars

\* C32: for an open connection k whose user is no participant of k's chat
\* (the user has left the group): no chat_message, typing or read_receipt
\* event published by a step is queued on k's channel, and a chat_message
\* frame of k stores no Message.
C32_LeaverCutOff ==
    [][ \A k \in FifoConns :
           (conn[k] = "open" /\ ConnUser[k] \notin participants[ConnChat[k]]) =>
              /\ (/\ published'.topic = chat_group_name(k)
                  /\ published'.event.type \in {"chat_message", "typing_indicator",
                                                 "read_receipt"})
                    => inbox'[k] = inbox[k]
              /\ \A content \in Contents :
                    WsChatMessage(k, content) => messages' = messages ]_vars

\* C33: no step of the handler of a read_receipt or delete_message frame
\* on a connection k that names a stored message of another chat than k's
\* changes a Message or a receipt, and a read_receipt or message_deleted
\* event that names a stored message is published to the topic of that
\* message's chat.
C33_FramesStayInChat ==
    [][ /\ \A m \in MsgIds :
              (/\ m <= Len(messages)
               /\ messages[m].chat # ConnChat["k1"]
               /\ \/ WsReadReceipt("k1", m)
                  \/ \E d \in BOOLEAN : WsDeleteMessage("k1", m, d)
                  \/ /\ \/ LeavesFrom("k1", "update_receipt: receipt.save")
                        \/ LeavesFrom("k1", "delete_message: message.save")
                     /\ pc["k1"].message_id = m)
                 => (messages' = messages /\ receipts' = receipts)
        /\ (/\ published'.event.type \in {"read_receipt", "message_deleted"}
            /\ published'.event.message_id \in 1..Len(messages'))
              => messages'[published'.event.message_id].chat
                    = to_python(published'.topic) ]_vars

\* C34: once the call exists, every channel subscribed to its signalling
\* group belongs to the caller or the receiver, every signalling event
\* published to the group comes from one of them, no connection of another
\* user is handed an event of the group, and a status posted by another
\* user leaves the Call rows unchanged.
C34_OnlyCallPartiesTakePart ==
    [][ Len(calls') >= 1 =>
          LET parties == {calls'[1].caller, calls'[1].receiver} IN
          /\ \A k \in groups'["call1"] : ConnUser[k] \in parties
          /\ published'.topic = "call1" => published'.event.user_id \in parties
          /\ delivered'.event.type \in {"webrtc_signal", "user_left"} =>
                ConnUser[delivered'.conn] \in parties
          /\ \A id \in CallIds, st \in CALL_STATUS :
                (UpdateCallStatus("h1", "C", id, st) /\ "C" \notin parties) =>
                   calls' = calls ]_vars

\* C35: on every channel the chat_message events wait in the order of
\* their messages' created_at: no event of a message is queued ahead of
\* the event of a message created earlier.
C35_EventsInCreatedAtOrder ==
    \A k \in FifoConns :
       \A i \in 1..Len(inbox[k]), j \in 1..Len(inbox[k]) :
          (/\ i < j
           /\ inbox[k][i].type = "chat_message"
           /\ inbox[k][j].type = "chat_message")
             => messages[inbox[k][i].message_id].created_at
                   <= messages[inbox[k][j].message_id].created_at

\* C36: no two personal chats have the same two users as their
\* participants.
C36_OnePersonalChatPerPair ==
    \A c \in DOMAIN participants, d \in DOMAIN participants :
       (/\ c # d
        /\ chat_type(c) = "personal" /\ chat_type(d) = "personal"
        /\ Cardinality(participants[c]) = 2)
          => participants[c] # participants[d]

\* C37: every step update_receipt makes for a read_receipt frame of a
\* connection of user U for message m leaves every receipt other than U's
\* receipt of m as it was, creates and removes no receipt, and leaves all
\* Message rows, Call rows, participants and DeletedMessage rows unchanged.
C37_ReadReceiptOnlyOwnRow ==
    [][ \A k \in StoreConns, m \in MsgIds :
           (\/ WsReadReceipt(k, m)
            \/ LeavesFrom(k, "update_receipt: receipt.save") /\ pc[k].message_id = m) =>
              /\ DOMAIN receipts' = DOMAIN receipts
              /\ \A p \in DOMAIN receipts :
                    p # <<m, ConnUser[k]>> => receipts'[p] = receipts[p]
              /\ messages' = messages
              /\ calls' = calls
              /\ participants' = participants
              /\ deleted_for' = deleted_for ]_vars

\* B's connection has just sent a read_receipt for a message of the group
\* chat: B's receipt is read, the receipt of another recipient of the same
\* message is still 'sent', and the call of A to B is stored
C37_Witness ==
    /\ published.event.type = "read_receipt"
    /\ published.event.origin = "k3"
    /\ published.event.message_id \in 1..Len(messages)
    /\ LET m == published.event.message_id IN
       /\ messages[m].chat = "c2"
       /\ <<m, "B">> \in DOMAIN receipts
       /\ receipts[<<m, "B">>].status = "read"
       /\ \E u \in Users \ {"B"} :
             <<m, u>> \in DOMAIN receipts /\ receipts[<<m, u>>].status = "sent"
    /\ Len(calls) = 1

\* C38: the handler of a delete_message frame of a connection of user U
\* finds the message exactly when views.delete_message would find it for U,
\* accepts the request exactly when the view would accept it then, and leaves the Message rows and the DeletedMessage rows that
\* the view would leave.
C38_DeletePathsAgree ==
    [][ \A k \in StoreConns, m \in MsgIds :
           /\ \A d \in BOOLEAN :
                 (WsDeleteMessage(k, m, d) /\ ~MessageOfSender(m, ConnUser[k])) =>
                    k \notin DOMAIN pc' /\ store' = store
           /\ (WsDeleteMessage(k, m, FALSE) /\ MessageOfSender(m, ConnUser[k])) =>
                 /\ At(k)' = "handle_delete_message: group_send"
                 /\ messages' = DeleteViewMessages(m, messages[m], FALSE, now)
                 /\ deleted_for' = DeleteViewDeletedFor(m, ConnUser[k], FALSE)
           /\ (LeavesFrom(k, "delete_message: message.save") /\ pc[k].message_id = m) =>
                 /\ At(k)' = "handle_delete_message: group_send"
                       <=> DeleteViewAccepts(pc[k].row[1], TRUE, now)
                 /\ messages' = DeleteViewMessages(m, pc[k].row[1], TRUE, now)
                 /\ deleted_for' = DeleteViewDeletedFor(m, ConnUser[k], TRUE) ]_vars

\* C39: right after chat_detail_view of user u for chat c, the unread
\* count chat_list_view computes for u and c is 0.
C39_NoUnreadAfterOpen ==
    [][ \A u \in Users, c \in ChatIds :
           ChatOpened("h2", u, c) => unread_counts(u, c)' = 0 ]_vars

====
